---- MODULE Spec2Model ----
(***************************************************************************)
(* A model of the definition-language parser of the logic simulator        *)
(* (src/parse.py) driven by the symbols of the scanner (src/scanner.py).   *)
(*                                                                         *)
(* The parser is a recursive-descent parser that keeps its state in the    *)
(* Parser object: the current symbol, the error count and error list, the  *)
(* flags missing_end and reached_eof.  It calls into three collaborators   *)
(* (devices, network, monitors) whose code is not part of src/; they are   *)
(* modelled from sections 3, 4.3, 4.4 and 4.5 of the specification.        *)
(*                                                                         *)
(* Identifiers: the names table interns strings injectively, so an id is   *)
(* represented by the string it stands for.                                *)
(***************************************************************************)
EXTENDS Integers, Sequences, FiniteSets, TLC

VARIABLES
    tokens,          \* the symbols scanner.get_symbol returns, in order; the last one is EOF
    pc,              \* position of parse_network in its own code
    pos,             \* number of scanner.get_symbol calls made; self.symbol = tokens[pos]
    error_count,     \* Parser.error_count
    error_messages,  \* Parser.error_messages
    missing_end,     \* Parser.missing_end
    reached_eof,     \* Parser.reached_eof
    devices_list,    \* the Device Model: the devices made so far
    connections,     \* the Connection Graph: the connections made so far
    monitors_dictionary, \* the Signal-Trace Recorder: the monitor points made so far
    semantic_checks, \* the semantic_checks argument of the list routine being run
    success,         \* the local variable success of build_list
    rets,            \* what devicelist, connectionlist, monitorlist, parse_network returned
    calls,           \* history: the calls made into devices, network and monitors
    recoveries,      \* history: one entry per call of Parser.error
    items,           \* history: one entry per iteration of build_list / check_syntax
    ios,             \* history: one entry per call of Parser.get_io
    defi_file,       \* the characters of the definition file the scanner reads
    scanner,         \* the fields of the Scanner
    returned,        \* history: one entry per call of Scanner.get_symbol
    cycles_completed, \* ControlPanel.cycles_completed
    signal,          \* the level of the monitored output of the network
    traces,          \* the Signal-Trace Recorder: the levels recorded for that output
    sim              \* history: one entry per click on the Run or the Continue button

vars == <<tokens, pc, pos, error_count, error_messages, missing_end, reached_eof,
          devices_list, connections, monitors_dictionary, semantic_checks, success,
          rets, calls, recoveries, items, ios, defi_file, scanner, returned,
          cycles_completed, signal, traces, sim>>

\* the variables of the control panel
gui_vars == <<cycles_completed, signal, traces, sim>>

---------------------------------------------------------------------------
(* Symbols (scanner.py, class Symbol and Scanner.__init__)                 *)

KEYWORDS == "KEYWORD"
DEVICETYPE == "DEVICETYPE"
NAMES == "NAME"
PROPERTY == "PROPERTY"
NUMBER == "NUMBER"
CL == "CL"
SCL == "SCL"
AR == "AR"
PE == "PE"
NoneType == "None"      \* a symbol whose type was left None
NoneId == "<None>"      \* a symbol whose id was left None

EOF == ""
COLON == ":"
SEMI_COLON == ";"
ARROW == "->"
PERIOD == "."
OFF == "OFF"
ON == "ON"
DEVICE_LIST == "DEVICE_LIST"
CONNECTION_LIST == "CONNECTION_LIST"
MONITOR_LIST == "MONITOR_LIST"
END == "END"
AND == "AND"
NAND == "NAND"
OR == "OR"
NOR == "NOR"
XOR == "XOR"
D_TYPE == "DTYPE"
CLOCK == "CLOCK"
SWITCH == "SWITCH"
SIGGEN == "SIGGEN"

initial_states == {OFF, ON}
keywords_list == {DEVICE_LIST, CONNECTION_LIST, MONITOR_LIST, END}
device_keywords == {AND, NAND, OR, NOR, XOR, D_TYPE, CLOCK, SWITCH, SIGGEN}

Symbol(type, id, linenum, colnum) ==
    [type |-> type, id |-> id, linenum |-> linenum, colnum |-> colnum]

---------------------------------------------------------------------------
(* Scanner (scanner.py).  A file is the sequence of its characters, each a *)
(* string of length one; read(1) at the end of the file gives "".  The     *)
(* scanner's state sc is the record of its counters and current character; *)
(* None as current character is written "" as well (both are falsy and     *)
(* equal to no character).                                                  *)

isspace(c) == c \in {" ", "\n", "\t", "\r"}
isdigit(c) == c \in {"0", "1", "2", "3", "4", "5", "6", "7", "8", "9"}
isalpha(c) ==
    c \in {"a", "b", "c", "d", "e", "f", "g", "h", "i", "j", "k", "l", "m",
           "n", "o", "p", "q", "r", "s", "t", "u", "v", "w", "x", "y", "z",
           "A", "B", "C", "D", "E", "F", "G", "H", "I", "J", "K", "L", "M",
           "N", "O", "P", "Q", "R", "S", "T", "U", "V", "W", "X", "Y", "Z"}
isalnum(c) == isalpha(c) \/ isdigit(c)

\* Scanner.__init__, lines 68-75
ScannerInit ==
    [current_position |-> 0, current_char |-> " ", line_counter |-> 1,
     col_counter |-> 0, comment_switch |-> 0, charac |-> ""]

\* a get_next_character that leaves a line comment open at the end of the line
get_next_character_in_comment(file, sc) ==
    IF sc.current_position < Len(file) /\ file[sc.current_position + 1] = "\n"
    THEN [sc EXCEPT !.charac = "\n",
                    !.current_position = @ + 1,
                    !.line_counter = @ + 1,
                    !.col_counter = 0]
    ELSE [sc EXCEPT !.charac = IF sc.current_position < Len(file)
                               THEN file[sc.current_position + 1] ELSE "",
                    !.current_position = @ + 1,
                    !.col_counter = @ + 1]

\* a get_next_character that goes on counting the columns at the end of a line
get_next_character_one_line(file, sc) ==
    IF sc.current_position < Len(file) /\ file[sc.current_position + 1] = "\n"
    THEN [sc EXCEPT !.charac = "\n",
                    !.current_position = @ + 1,
                    !.line_counter = @ + 1,
                    !.col_counter = @ + 1,
                    !.comment_switch = IF @ = 1 THEN 0 ELSE @]
    ELSE [sc EXCEPT !.charac = IF sc.current_position < Len(file)
                               THEN file[sc.current_position + 1] ELSE "",
                    !.current_position = @ + 1,
                    !.col_counter = @ + 1]

\* Scanner.get_next_character(): charac is the character returned
get_next_character(file, sc) ==
    IF sc.current_position < Len(file) /\ file[sc.current_position + 1] = "\n"
    THEN [sc EXCEPT !.charac = "\n",
                    !.current_position = @ + 1,
                    !.line_counter = @ + 1,
                    !.col_counter = 0,
                    !.comment_switch = IF @ = 1 THEN 0 ELSE @]
    ELSE [sc EXCEPT !.charac = IF sc.current_position < Len(file)
                               THEN file[sc.current_position + 1] ELSE "",
                    !.current_position = @ + 1,
                    !.col_counter = @ + 1]

\* Scanner.get_next_non_whitespace_character(): n passes of the for loop are left
RECURSIVE non_whitespace_loop(_, _, _)
non_whitespace_found(file, sc, n) ==
    IF ~isspace(sc.charac) THEN sc ELSE non_whitespace_loop(file, sc, n - 1)
non_whitespace_loop(file, sc, n) ==
    IF n <= 0 THEN [sc EXCEPT !.charac = ""]
    ELSE non_whitespace_found(file, get_next_character(file, sc), n)
get_next_non_whitespace_character(file, sc) ==
    non_whitespace_loop(file, sc, Len(file) - sc.current_position)

\* self.current_char = <the character just returned>
SetChar(sc) == [sc EXCEPT !.current_char = sc.charac]

\* Scanner.comment_check(), lines 120-136
RECURSIVE comment_check(_, _)
RECURSIVE comment_loop(_, _)
\* lines 133-134: the character after a '*' inside a block comment
comment_slash(sc) ==
    IF sc.current_char = "/" THEN [sc EXCEPT !.comment_switch = 0] ELSE sc
\* lines 130-134
comment_star(file, sc) ==
    IF sc.comment_switch = 2 /\ sc.current_char = "*"
    THEN comment_slash(SetChar(get_next_character(file, sc)))
    ELSE sc
\* lines 127-136: the while loop, then the recursive call
comment_loop(file, sc) ==
    IF sc.comment_switch # 0 /\ sc.current_char # ""
    THEN comment_loop(file,
             SetChar(get_next_non_whitespace_character(file, comment_star(file, sc))))
    ELSE comment_check(file, sc)
\* lines 122-126: after the character following '/' was read
comment_open(file, sc) ==
    comment_loop(file,
        SetChar(get_next_non_whitespace_character(file,
            [sc EXCEPT !.comment_switch = IF sc.current_char = "*" THEN 2
                                          ELSE IF sc.current_char = "/" THEN 1
                                          ELSE @])))
comment_check(file, sc) ==
    IF sc.current_char = "/"
    THEN comment_open(file, SetChar(get_next_character(file, sc)))
    ELSE sc

\* the pair get_symbol leaves: the scanner's state and the symbol returned
Scanned(sc, type, id, linenum, colnum) ==
    [sc |-> sc, symbol |-> Symbol(type, id, linenum, colnum)]

\* lines 160-165: a number
RECURSIVE scan_number(_, _, _, _, _)
scan_number(file, sc, num_string, linenum, colnum) ==
    IF isdigit(sc.current_char)
    THEN scan_number(file, SetChar(get_next_character(file, sc)),
                     num_string \o sc.current_char, linenum, colnum)
    ELSE Scanned(sc, NUMBER, num_string, linenum, colnum)

\* lines 172-184: the type of a word
word_type(id) ==
    IF id \in keywords_list THEN KEYWORDS
    ELSE IF id \in device_keywords THEN DEVICETYPE
    ELSE IF id \in initial_states THEN PROPERTY
    ELSE NAMES

\* lines 168-184: a word
RECURSIVE scan_word(_, _, _, _, _)
scan_word(file, sc, word, linenum, colnum) ==
    IF isalnum(sc.current_char) \/ sc.current_char = "_"
    THEN scan_word(file, SetChar(get_next_character(file, sc)),
                   word \o sc.current_char, linenum, colnum)
    ELSE Scanned(sc, word_type(word), word, linenum, colnum)

\* lines 199-203: after the character following '-' was read
scan_arrow(file, sc, linenum, colnum) ==
    IF sc.current_char = ">"
    THEN Scanned(SetChar(get_next_character(file, sc)), AR, ARROW, linenum, colnum)
    ELSE Scanned(SetChar(get_next_character(file, sc)), NoneType, NoneId, linenum, colnum)

\* lines 187-208: punctuation and every other character
scan_other(file, sc, linenum, colnum) ==
    IF sc.current_char = ":"
    THEN Scanned(SetChar(get_next_character(file, sc)), CL, COLON, linenum, colnum)
    ELSE IF sc.current_char = ";"
    THEN Scanned(SetChar(get_next_character(file, sc)), SCL, SEMI_COLON, linenum, colnum)
    ELSE IF sc.current_char = "."
    THEN Scanned(SetChar(get_next_character(file, sc)), PE, PERIOD, linenum, colnum)
    ELSE IF sc.current_char = "-"
    THEN scan_arrow(file, SetChar(get_next_character(file, sc)), linenum, colnum)
    ELSE Scanned(SetChar(get_next_character(file, sc)), NoneType, sc.current_char,
                 linenum, colnum)

\* lines 153-210: after white space and comments were skipped
scan_symbol(file, sc) ==
    IF sc.current_char = ""
    THEN Scanned(sc, NoneType, EOF, sc.line_counter, sc.col_counter)
    ELSE IF isdigit(sc.current_char)
    THEN scan_number(file, sc, "", sc.line_counter, sc.col_counter)
    ELSE IF isalpha(sc.current_char)
    THEN scan_word(file, sc, "", sc.line_counter, sc.col_counter)
    ELSE scan_other(file, sc, sc.line_counter, sc.col_counter)

\* lines 148-151: white space and comments are skipped
skip_blanks(file, sc) ==
    comment_check(file,
        IF isspace(sc.current_char)
        THEN SetChar(get_next_non_whitespace_character(file, sc))
        ELSE sc)

\* a get_symbol that reads from the file before it looks at its current character
scanner_get_symbol_reading(file, sc) ==
    IF sc.current_char = ""
    THEN scan_symbol(file, SetChar(get_next_character(file, sc)))
    ELSE scan_symbol(file, skip_blanks(file, sc))

\* Scanner.get_symbol()
scanner_get_symbol(file, sc) ==
    IF sc.current_char = ""
    THEN Scanned(sc, NoneType, EOF, sc.line_counter, sc.col_counter)
    ELSE scan_symbol(file, skip_blanks(file, sc))

\* the symbols get_symbol returns for a file, up to and including the first EOF
RECURSIVE scan_rest(_, _)
scan_rest(file, scanned) ==
    IF scanned.symbol.id = EOF /\ scanned.symbol.type = NoneType
    THEN <<scanned.symbol>>
    ELSE <<scanned.symbol>> \o scan_rest(file, scanner_get_symbol(file, scanned.sc))
ScanFile(file) == scan_rest(file, scanner_get_symbol(file, ScannerInit))

---------------------------------------------------------------------------
(* Python's None / True / False as returned by the parser's routines       *)

PyTrue == "True"
PyFalse == "False"
PyNone == "None"
Pending == "pending"    \* the routine has not returned yet
Truthy(r) == r = PyTrue

---------------------------------------------------------------------------
(* Property values handed to devices.make_device.  A value is either None, *)
(* an integer, a string or a signal level.                                 *)

NoProperty == [k |-> "None", n |-> 0, s |-> ""]
IntProperty(n) == [k |-> "int", n |-> n, s |-> ""]
StrProperty(s) == [k |-> "str", n |-> 0, s |-> s]
LOW == [k |-> "signal", n |-> 0, s |-> "LOW"]
HIGH == [k |-> "signal", n |-> 0, s |-> "HIGH"]

---------------------------------------------------------------------------
(* The Device Model (specification 3 and 4.3): declare / resolve.          *)
(* A device is its identifier, its kind and its configuration property.    *)

devices_NO_ERROR == "devices.NO_ERROR"
INVALID_QUALIFIER == "devices.INVALID_QUALIFIER"
NO_QUALIFIER == "devices.NO_QUALIFIER"
BAD_DEVICE == "devices.BAD_DEVICE"
QUALIFIER_PRESENT == "devices.QUALIFIER_PRESENT"
DEVICE_PRESENT == "devices.DEVICE_PRESENT"

MaxGateInputs == 16
gate_types == {AND, NAND, OR, NOR, XOR}
BitStrings == {"0", "1", "01", "10", "0110"}   \* the literals of the model made of 0s and 1s only

NoDevice == [device_id |-> NoneId, device_kind |-> "None", property |-> NoProperty]

\* resolve(name): the device of that identifier, or None
get_device(devs, id) ==
    IF \E i \in 1..Len(devs) : devs[i].device_id = id
    THEN devs[CHOOSE i \in 1..Len(devs) : devs[i].device_id = id]
    ELSE NoDevice

\* the outcome of declare(name, kind, configuration)
make_device_error(devs, id, kind, property) ==
    IF get_device(devs, id) # NoDevice THEN DEVICE_PRESENT
    ELSE CASE kind \in gate_types \ {XOR} ->
                 IF property.k = "None" THEN NO_QUALIFIER
                 ELSE IF property.k = "int" /\ property.n \in 1..MaxGateInputs
                      THEN devices_NO_ERROR ELSE INVALID_QUALIFIER
           [] kind \in {XOR, D_TYPE} ->
                 IF property.k = "None" THEN devices_NO_ERROR ELSE QUALIFIER_PRESENT
           [] kind = CLOCK ->
                 IF property.k = "None" THEN NO_QUALIFIER
                 ELSE IF property.k = "int" /\ property.n > 0
                      THEN devices_NO_ERROR ELSE INVALID_QUALIFIER
           [] kind = SWITCH ->
                 IF property.k = "None" THEN NO_QUALIFIER
                 ELSE IF property.k = "signal"
                      THEN devices_NO_ERROR ELSE INVALID_QUALIFIER
           [] kind = SIGGEN ->
                 IF property.k = "None" THEN NO_QUALIFIER
                 ELSE IF property.k = "str" /\ property.s \in BitStrings
                      THEN devices_NO_ERROR ELSE INVALID_QUALIFIER
           [] OTHER -> BAD_DEVICE

\* the devices after declare(name, kind, configuration)
make_device(devs, id, kind, property) ==
    IF make_device_error(devs, id, kind, property) = devices_NO_ERROR
    THEN Append(devs, [device_id |-> id, device_kind |-> kind, property |-> property])
    ELSE devs

\* the named input pins of a device: a gate's are its ordinal input indices
InputPins(device) ==
    CASE device.device_kind \in gate_types \ {XOR} ->
             {ToString(i) : i \in 1..device.property.n}
      [] device.device_kind = XOR -> {"1", "2"}
      [] device.device_kind = D_TYPE -> {"DATA", "CLK", "SET", "CLEAR"}
      [] OTHER -> {}

\* the output pins of a device: Q and QBAR of a D_TYPE, else the single unnamed output
OutputPins(device) ==
    IF device.device_kind = D_TYPE THEN {"Q", "QBAR"} ELSE {NoneId}

---------------------------------------------------------------------------
(* The Connection Graph (specification 3 and 4.4): connect and             *)
(* validate_fully_wired.  A connection drives one input pin from one       *)
(* output pin.                                                             *)

network_NO_ERROR == "network.NO_ERROR"
INPUT_TO_INPUT == "network.INPUT_TO_INPUT"
OUTPUT_TO_OUTPUT == "network.OUTPUT_TO_OUTPUT"
INPUT_CONNECTED == "network.INPUT_CONNECTED"
PORT_ABSENT == "network.PORT_ABSENT"
DEVICE_ABSENT == "network.DEVICE_ABSENT"

\* the outcome of connect(input_ref, output_ref)
make_connection_error(devs, cons, in_id, in_port, out_id, out_port) ==
    LET in_dev == get_device(devs, in_id)
        out_dev == get_device(devs, out_id)
    IN  IF in_dev = NoDevice \/ out_dev = NoDevice THEN DEVICE_ABSENT
        ELSE IF \/ in_port \notin InputPins(in_dev) \cup OutputPins(in_dev)
                \/ out_port \notin InputPins(out_dev) \cup OutputPins(out_dev)
             THEN PORT_ABSENT
        ELSE IF in_port \notin InputPins(in_dev) THEN OUTPUT_TO_OUTPUT
        ELSE IF out_port \notin OutputPins(out_dev) THEN INPUT_TO_INPUT
        ELSE IF \E c \in cons : c.in_id = in_id /\ c.in_port = in_port
             THEN INPUT_CONNECTED
        ELSE network_NO_ERROR

make_connection(devs, cons, in_id, in_port, out_id, out_port) ==
    IF make_connection_error(devs, cons, in_id, in_port, out_id, out_port) = network_NO_ERROR
    THEN cons \cup {[in_id |-> in_id, in_port |-> in_port,
                     out_id |-> out_id, out_port |-> out_port]}
    ELSE cons

\* validate_fully_wired(): every input pin of every device is driven
check_network(devs, cons) ==
    \A i \in 1..Len(devs) : \A pin \in InputPins(devs[i]) :
        \E c \in cons : c.in_id = devs[i].device_id /\ c.in_port = pin

---------------------------------------------------------------------------
(* The Signal-Trace Recorder (specification 3 and 4.5): monitor.           *)

monitors_NO_ERROR == "monitors.NO_ERROR"
NOT_OUTPUT == "monitors.NOT_OUTPUT"
MONITOR_PRESENT == "monitors.MONITOR_PRESENT"

\* the outcome of monitor(output_ref)
make_monitor_error(devs, mons, device_id, output_id) ==
    LET device == get_device(devs, device_id)
    IN  IF device = NoDevice \/ output_id \notin OutputPins(device) THEN NOT_OUTPUT
        ELSE IF <<device_id, output_id>> \in mons THEN MONITOR_PRESENT
        ELSE monitors_NO_ERROR

make_monitor(devs, mons, device_id, output_id) ==
    IF make_monitor_error(devs, mons, device_id, output_id) = monitors_NO_ERROR
    THEN mons \cup {<<device_id, output_id>>}
    ELSE mons

---------------------------------------------------------------------------
(* Parser (parse.py).  The routines are operators on the parser's state s, *)
(* a record of the variables they read and write; ret is the value the     *)
(* routine returned.                                                        *)

SYNTAX_COLON == "SYNTAX_COLON"
KEYWORD_ERROR == "KEYWORD_ERROR"
SYMBOL_TYPE_ERROR == "SYMBOL_TYPE_ERROR"
NO_DEVICE == "NO_DEVICE"
BAD_NAME == "BAD_NAME"
NOT_VALID_NAME == "NOT_VALID_NAME"
SYNTAX == "SYNTAX"
END_ERROR == "END_ERROR"
IDENTIFIER_PRESENT == "IDENTIFIER_PRESENT"
UNCONNECTED_INPUTS == "UNCONNECTED_INPUTS"
NO_MONITOR == "NO_MONITOR"
NO_IDENTIFIER == "NO_IDENTIFIER"
NO_EOF == "NO_EOF"

INPUT == "INPUT"
OUTPUT == "OUTPUT"

symbol_types == [t \in {KEYWORDS, DEVICETYPE, NAMES, PROPERTY, NUMBER, CL, SCL, AR, PE} |->
    CASE t = KEYWORDS -> "KEYWORD"
      [] t = DEVICETYPE -> "DEVICE TYPE"
      [] t = NAMES -> "NAME"
      [] t = PROPERTY -> "INITIAL STATE"
      [] t = NUMBER -> "NUMBER"
      [] t = CL -> "COLON"
      [] t = SCL -> "SEMI COLON"
      [] t = AR -> "ARROW (->)"
      [] t = PE -> "PERIOD (.)"]


\* self.symbol: the symbol the last get_symbol call returned (EOF again once EOF was returned)
sym(s) == tokens[IF s.pos < Len(tokens) THEN s.pos ELSE Len(tokens)]

\* self.symbol = self.scanner.get_symbol()
get_symbol(s) == [s EXCEPT !.pos = s.pos + 1]

Ret(s, r) == [s EXCEPT !.ret = r]

\* stopping symbols without END for the errors of an item
stopping_symbol_without_end(error_type) ==
    {EOF} \cup
    CASE error_type \in {KEYWORD_ERROR, SYNTAX_COLON} -> {END}
      [] error_type = END_ERROR -> keywords_list
      [] error_type \in {NO_EOF, UNCONNECTED_INPUTS, NO_MONITOR} -> {}
      [] OTHER -> {SEMI_COLON}

\* the stopping symbols error() collects for an error type
stopping_symbol(error_type) ==
    {EOF} \cup
    CASE error_type \in {KEYWORD_ERROR, SYNTAX_COLON} -> {END}
      [] error_type = END_ERROR -> keywords_list
      [] error_type \in {SYMBOL_TYPE_ERROR, NO_DEVICE, BAD_NAME, NOT_VALID_NAME, SYNTAX,
                         IDENTIFIER_PRESENT, NO_IDENTIFIER,
                         NOT_OUTPUT, MONITOR_PRESENT,
                         INPUT_TO_INPUT, OUTPUT_TO_OUTPUT, INPUT_CONNECTED,
                         PORT_ABSENT, DEVICE_ABSENT,
                         INVALID_QUALIFIER, NO_QUALIFIER, BAD_DEVICE,
                         QUALIFIER_PRESENT, DEVICE_PRESENT} -> {SEMI_COLON, END}
      [] OTHER -> {}

\* while self.symbol.id not in stopping_symbol: self.symbol = self.scanner.get_symbol()
RECURSIVE skip_to(_, _)
skip_to(s, stopping) ==
    IF sym(s).id \in stopping THEN s ELSE skip_to(get_symbol(s), stopping)

\* the part of the message that depends on vararg
message_detail(error_type, vararg) ==
    IF error_type \in {KEYWORD_ERROR, SYMBOL_TYPE_ERROR, SYNTAX, INVALID_QUALIFIER}
    THEN vararg ELSE NoneId

\* an error that takes the line and the column after the recovery, from the symbol
\* the recovery landed on
error_append_landed(s, landed, resume, error_type, advance_symbol, vararg, stop) ==
    [resume EXCEPT
        !.error_count = s.error_count + 1,
        !.reached_eof = IF advance_symbol /\ stop = EOF THEN TRUE ELSE s.reached_eof,
        !.error_messages = Append(s.error_messages,
            [error_type |-> error_type, detail |-> message_detail(error_type, vararg),
             resumed |-> IF advance_symbol /\ stop # EOF THEN sym(resume).linenum ELSE 0,
             linenum |-> sym(landed).linenum, colnum |-> sym(landed).colnum]),
        !.recoveries = Append(s.recoveries,
            [error_type |-> error_type, advance_symbol |-> advance_symbol,
             from |-> s.pos, landed |-> landed.pos, resumed |-> resume.pos,
             stop |-> stop]),
        !.ret = stop]

\* Parser.error, lines 672-688: s is the state when the error was detected, landed the
\* state on the stopping symbol, resume the state parsing goes on from
error_append(s, landed, resume, error_type, advance_symbol, vararg, stop) ==
    [resume EXCEPT
        !.error_count = s.error_count + 1,
        !.reached_eof = IF advance_symbol /\ stop = EOF THEN TRUE ELSE s.reached_eof,
        !.error_messages = Append(s.error_messages,
            [error_type |-> error_type, detail |-> message_detail(error_type, vararg),
             resumed |-> IF advance_symbol /\ stop # EOF THEN sym(resume).linenum ELSE 0,
             linenum |-> sym(s).linenum, colnum |-> sym(s).colnum]),
        !.recoveries = Append(s.recoveries,
            [error_type |-> error_type, advance_symbol |-> advance_symbol,
             from |-> s.pos, landed |-> landed.pos, resumed |-> resume.pos,
             stop |-> stop]),
        !.ret = stop]

\* an error() that resumes on the stopping symbol itself
error_resume_on_stop(s, landed, error_type, advance_symbol, vararg) ==
    IF advance_symbol
    THEN error_append(s, landed, landed, error_type, advance_symbol, vararg,
                      sym(landed).id)
    ELSE error_append(s, s, s, error_type, advance_symbol, vararg, NoneId)

\* Parser.error, lines 675-684: the symbol after the stopping symbol is read unless it is EOF
error_resume(s, landed, error_type, advance_symbol, vararg) ==
    IF advance_symbol
    THEN error_append(s, landed,
                      IF sym(landed).id # EOF THEN get_symbol(landed) ELSE landed,
                      error_type, advance_symbol, vararg, sym(landed).id)
    ELSE error_append(s, s, s, error_type, advance_symbol, vararg, NoneId)

\* Parser.error(error_type, advance_symbol, vararg); ret is the stop it returns
error(s, error_type, advance_symbol, vararg) ==
    error_resume(s,
                 IF advance_symbol THEN skip_to(s, stopping_symbol(error_type)) ELSE s,
                 error_type, advance_symbol, vararg)

\* a check_valid_name that takes every name for a new one
check_valid_name_always(s, id) == TRUE

\* Parser.check_valid_name(id)
check_valid_name(s, id) == get_device(s.devices_list, id) = NoDevice

\* int(prop): the value of a string of decimal digits, digit by digit
digit_value(c) ==
    CASE c = "0" -> 0 [] c = "1" -> 1 [] c = "2" -> 2 [] c = "3" -> 3 [] c = "4" -> 4
      [] c = "5" -> 5 [] c = "6" -> 6 [] c = "7" -> 7 [] c = "8" -> 8 [] c = "9" -> 9
RECURSIVE int_from(_, _, _)
int_from(prop, i, n) ==
    IF i > Len(prop) THEN n
    ELSE int_from(prop, i + 1, 10 * n + digit_value(SubSeq(prop, i, i)))
int(prop) == int_from(prop, 1, 0)

\* a get_property that takes ON and OFF for a signal level whatever the kind of device
get_property_any_kind(s, type) ==
    IF sym(s).id \in initial_states
    THEN (IF sym(s).id = OFF THEN LOW ELSE HIGH)
    ELSE IF sym(s).type = NUMBER
         THEN (IF type = SIGGEN THEN StrProperty(sym(s).id)
               ELSE IntProperty(int(sym(s).id)))
    ELSE NoProperty

\* Parser.get_property(type)
get_property(s, type) ==
    IF type = SWITCH /\ sym(s).id \in initial_states
    THEN (IF sym(s).id = OFF THEN LOW ELSE HIGH)
    ELSE IF sym(s).type = NUMBER
         THEN (IF type = SIGGEN THEN StrProperty(sym(s).id)
               ELSE IntProperty(int(sym(s).id)))
    ELSE NoProperty

\* the record of a call into devices, network or monitors
Call(s, op, args, property, res) ==
    [s EXCEPT !.calls = Append(s.calls,
        [op |-> op, args |-> args, property |-> property, res |-> res, at |-> s.pos])]

\* Parser.device, lines 275-283: after devices.make_device returned error_type
device_made(s, type, error_type) ==
    IF error_type # devices_NO_ERROR
    THEN Ret(error(s, error_type, TRUE, type), PyFalse)
    ELSE IF sym(s).type = SCL
         THEN Ret(get_symbol(s), PyTrue)
         ELSE Ret(error(s, SYNTAX, TRUE, SEMI_COLON), PyFalse)

\* Parser.device, lines 270-273: devices.make_device(id, type, property)
device_make(s, id, type, property) ==
    device_made(Call([s EXCEPT !.devices_list =
                          make_device(s.devices_list, id, type, property)],
                     "make_device", <<id, type>>, property,
                     make_device_error(s.devices_list, id, type, property)),
                type, make_device_error(s.devices_list, id, type, property))

\* Parser.device, lines 261-268: the optional property
device_property(s, id, type) ==
    IF sym(s).type = PROPERTY \/ sym(s).type = NUMBER
    THEN device_make(get_symbol(s), id, type, get_property(s, type))
    ELSE device_make(s, id, type, NoProperty)

\* a device that takes a word of the language for a name as well
device_name_any_word(s, type) ==
    IF sym(s).type \in {NAMES, KEYWORDS, DEVICETYPE, PROPERTY}
    THEN IF ~check_valid_name(s, sym(s).id)
         THEN Ret(error(s, NOT_VALID_NAME, TRUE, NoneId), PyFalse)
         ELSE device_property(get_symbol(s), sym(s).id, type)
    ELSE Ret(error(s, BAD_NAME, TRUE, NoneId), PyFalse)

\* Parser.device, lines 252-286: the name
device_name(s, type) ==
    IF sym(s).type = NAMES
    THEN IF ~check_valid_name(s, sym(s).id)
         THEN Ret(error(s, NOT_VALID_NAME, TRUE, NoneId), PyFalse)
         ELSE device_property(get_symbol(s), sym(s).id, type)
    ELSE Ret(error(s, BAD_NAME, TRUE, NoneId), PyFalse)

\* Parser.device(): parse through device details, and make device
device(s) ==
    IF sym(s).id \notin device_keywords
    THEN Ret(error(s, NO_DEVICE, TRUE, NoneId), PyFalse)
    ELSE device_name(get_symbol(s), sym(s).id)

NonePair == [io_id |-> NoneId, io_port |-> NoneId]
IsNonePair(io) == io.io_id = NoneId /\ io.io_port = NoneId
Io(s, id, port) == [s EXCEPT !.io = [io_id |-> id, io_port |-> port]]

\* a get_io that takes a number after the period for the name of a pin as well
get_io_identifier_or_number(s, id) ==
    IF sym(s).type = NAMES \/ sym(s).type = NUMBER
    THEN Io(get_symbol(s), id, sym(s).id)
    ELSE Io(error(s, NO_IDENTIFIER, TRUE, NoneId), NoneId, NoneId)

\* Parser.get_io, lines 506-512: the identifier after the period
get_io_identifier(s, id) ==
    IF sym(s).type = NAMES
    THEN Io(get_symbol(s), id, sym(s).id)
    ELSE Io(error(s, NO_IDENTIFIER, TRUE, NoneId), NoneId, NoneId)

\* a get_io that reads past the period before it reports the identifier
get_io_port_past_period(s, id, expect_identifier) ==
    IF sym(s).type = PE
    THEN IF expect_identifier
         THEN get_io_identifier(get_symbol(s), id)
         ELSE Io(error(get_symbol(s), IDENTIFIER_PRESENT, TRUE, NoneId), NoneId, NoneId)
    ELSE IF expect_identifier
         THEN Io(error(s, SYNTAX, TRUE, PERIOD), NoneId, NoneId)
         ELSE Io(s, id, NoneId)

\* a get_io that does not miss the period of an identifier it expects
get_io_port_lenient(s, id, expect_identifier) ==
    IF sym(s).type = PE
    THEN IF expect_identifier
         THEN get_io_identifier(get_symbol(s), id)
         ELSE Io(error(s, IDENTIFIER_PRESENT, TRUE, NoneId), NoneId, NoneId)
    ELSE Io(s, id, NoneId)

\* Parser.get_io, lines 503-522: after the device was found
get_io_port(s, id, expect_identifier) ==
    IF sym(s).type = PE
    THEN IF expect_identifier
         THEN get_io_identifier(get_symbol(s), id)
         ELSE Io(error(s, IDENTIFIER_PRESENT, TRUE, NoneId), NoneId, NoneId)
    ELSE IF expect_identifier
         THEN Io(error(s, SYNTAX, TRUE, PERIOD), NoneId, NoneId)
         ELSE Io(s, id, NoneId)

\* Parser.get_io, lines 492-501: the device of the current symbol
get_io_device(s, io) ==
    IF get_device(s.devices_list, sym(s).id) = NoDevice
    THEN Io(error(s, NO_DEVICE, TRUE, NoneId), NoneId, NoneId)
    ELSE get_io_port(get_symbol(s), sym(s).id,
                     io = INPUT \/
                     get_device(s.devices_list, sym(s).id).device_kind = D_TYPE)

\* the history entry of a call of get_io(io) that took the state from s to t
get_io_entry(s, io, t) ==
    [t EXCEPT !.ios = Append(s.ios,
        [io |-> io, from |-> s.pos, to |-> t.pos, pair |-> t.io,
         device |-> get_device(s.devices_list, sym(s).id),
         errors |-> SubSeq(t.error_messages, Len(s.error_messages) + 1,
                           Len(t.error_messages))])]

\* Parser.get_io(io): io is the pair (device_id, port_id) it returns
get_io(s, io) == get_io_entry(s, io, get_io_device(s, io))

\* Parser.check_io, lines 529-534: the identifier after the period
check_io_identifier(s) ==
    IF sym(s).type = NAMES
    THEN Ret(get_symbol(s), PyTrue)
    ELSE Ret(error(s, NO_IDENTIFIER, TRUE, NoneId), PyFalse)

\* Parser.check_io, lines 528-536: after the name
check_io_port(s) ==
    IF sym(s).type = PE THEN check_io_identifier(get_symbol(s)) ELSE Ret(s, PyTrue)

\* Parser.check_io(io): check syntax for io
check_io(s, io) == check_io_port(get_symbol(s))

\* Parser.connect, lines 312-320: after network.make_connection returned error_type
connect_made(s, error_type) ==
    IF error_type # network_NO_ERROR
    THEN Ret(error(s, error_type, TRUE, NoneId), PyFalse)
    ELSE IF sym(s).type = SCL
         THEN Ret(get_symbol(s), PyTrue)
         ELSE Ret(error(s, SYNTAX, TRUE, SEMI_COLON), PyFalse)

\* Parser.connect, lines 303-311: the input, and network.make_connection
connect_input(i, output) ==
    IF IsNonePair(i.io) THEN Ret(i, PyFalse)
    ELSE connect_made(
             Call([i EXCEPT !.connections =
                       make_connection(i.devices_list, i.connections,
                           i.io.io_id, i.io.io_port, output.io_id, output.io_port)],
                  "make_connection",
                  <<i.io.io_id, i.io.io_port, output.io_id, output.io_port>>, NoProperty,
                  make_connection_error(i.devices_list, i.connections,
                      i.io.io_id, i.io.io_port, output.io_id, output.io_port)),
             make_connection_error(i.devices_list, i.connections,
                 i.io.io_id, i.io.io_port, output.io_id, output.io_port))

\* Parser.connect, lines 301-323: after the arrow
connect_arrow(s, output) ==
    IF sym(s).type = NAMES
    THEN connect_input(get_io(s, INPUT), output)
    ELSE Ret(error(s, SYMBOL_TYPE_ERROR, TRUE, "NAME"), PyFalse)

\* Parser.connect, lines 295-326: after the output
connect_output(o) ==
    IF IsNonePair(o.io) THEN Ret(o, PyFalse)
    ELSE IF sym(o).type = AR
         THEN connect_arrow(get_symbol(o), o.io)
         ELSE Ret(error(o, SYNTAX, TRUE, ARROW), PyFalse)

\* Parser.connect(): parse through connection details, and make connection
connect(s) == connect_output(get_io(s, OUTPUT))

\* Parser.connect_syntax, lines 342-348: after the input
connect_syntax_input(i) ==
    IF ~Truthy(i.ret) THEN Ret(i, PyNone)
    ELSE IF sym(i).type = SCL
         THEN Ret(get_symbol(i), PyNone)
         ELSE Ret(error(i, SYNTAX, TRUE, SEMI_COLON), PyNone)

\* Parser.connect_syntax, lines 340-350: after the arrow
connect_syntax_arrow(s) ==
    IF sym(s).type = NAMES
    THEN connect_syntax_input(check_io(s, INPUT))
    ELSE Ret(error(s, SYMBOL_TYPE_ERROR, TRUE, "NAME"), PyNone)

\* Parser.connect_syntax, lines 334-352: after the output
connect_syntax_output(o) ==
    IF ~Truthy(o.ret) THEN Ret(o, PyNone)
    ELSE IF sym(o).type = AR
         THEN connect_syntax_arrow(get_symbol(o))
         ELSE Ret(error(o, SYNTAX, TRUE, ARROW), PyNone)

\* Parser.connect_syntax(): parse through connection details, checking syntax
connect_syntax(s) == connect_syntax_output(check_io(s, OUTPUT))

\* Parser.monitor, lines 364-371: after monitors.make_monitor returned error_type
monitor_made(s, error_type) ==
    IF error_type # monitors_NO_ERROR
    THEN Ret(error(s, error_type, TRUE, NoneId), PyNone)
    ELSE IF sym(s).type = SCL
         THEN Ret(get_symbol(s), PyNone)
         ELSE Ret(error(s, SYNTAX, TRUE, SEMI_COLON), PyNone)

\* Parser.monitor, lines 359-363: after the output, and monitors.make_monitor
monitor_output(o) ==
    IF IsNonePair(o.io) THEN Ret(o, PyNone)
    ELSE monitor_made(
             Call([o EXCEPT !.monitors_dictionary =
                       make_monitor(o.devices_list, o.monitors_dictionary,
                                    o.io.io_id, o.io.io_port)],
                  "make_monitor", <<o.io.io_id, o.io.io_port>>, NoProperty,
                  make_monitor_error(o.devices_list, o.monitors_dictionary,
                                     o.io.io_id, o.io.io_port)),
             make_monitor_error(o.devices_list, o.monitors_dictionary,
                                o.io.io_id, o.io.io_port))

\* Parser.monitor(): parse through outputs to monitor, making monitor points
monitor(s) == monitor_output(get_io(s, OUTPUT))

\* Parser.monitor_syntax, lines 377-383: after the output
monitor_syntax_output(o) ==
    IF ~Truthy(o.ret) THEN Ret(o, PyNone)
    ELSE IF sym(o).type = SCL
         THEN Ret(get_symbol(o), PyNone)
         ELSE Ret(error(o, SYNTAX, TRUE, SEMI_COLON), PyNone)

\* Parser.monitor_syntax(): parse through outputs to monitor, checking syntax
monitor_syntax(s) == monitor_syntax_output(check_io(s, OUTPUT))

\* a check_keyword that takes the colon if it is there and does not miss it otherwise
check_keyword_colon_optional(s) ==
    IF sym(s).type = CL THEN Ret(get_symbol(s), PyTrue) ELSE Ret(s, PyTrue)

\* Parser.check_keyword, lines 389-394: the colon after the keyword
check_keyword_colon(s) ==
    IF sym(s).type = CL
    THEN Ret(get_symbol(s), PyTrue)
    ELSE Ret(error(s, SYNTAX_COLON, TRUE, NoneId), PyFalse)

\* a check_keyword that reports a wrong keyword and goes on from the same symbol
check_keyword_unrecovered(s, keyword) ==
    IF sym(s).id = keyword
    THEN check_keyword_colon(get_symbol(s))
    ELSE Ret(error(s, KEYWORD_ERROR, FALSE, keyword), PyFalse)

\* Parser.check_keyword(keyword): checks to see if keyword is present
check_keyword(s, keyword) ==
    IF sym(s).id = keyword
    THEN check_keyword_colon(get_symbol(s))
    ELSE Ret(error(s, KEYWORD_ERROR, TRUE, keyword), PyFalse)

\* Parser.check_end(error_recovery): checks to see if END is present
check_end(s, error_recovery) ==
    IF sym(s).id = END
    THEN Ret(get_symbol(s), PyNone)
    ELSE Ret(error(s, END_ERROR, error_recovery, NoneId), PyNone)

\* the condition of the while loop of build_list and check_syntax
in_list(s) == sym(s).id # END /\ sym(s).id # EOF

\* a build_list that leaves its loop when method() fails
build_list_method_abort(s, m) ==
    [m EXCEPT !.success = IF ~Truthy(m.ret) THEN FALSE ELSE s.success,
              !.brk = ~Truthy(m.ret)]

\* build_list, lines 409-410: success after method() returned in state m
build_list_method(s, m) ==
    [m EXCEPT !.success = IF ~Truthy(m.ret) THEN FALSE ELSE s.success]

\* one pass through the body of build_list's while loop, m being the state method()
\* returns in; brk: the loop was left by break
build_list_body(s, expected_type, m) ==
    IF sym(s).type = expected_type
    THEN build_list_method(s, m)
    ELSE IF sym(s).type = KEYWORDS \/ sym(s).type = CL
    THEN [error(s, END_ERROR, FALSE, NoneId) EXCEPT
             !.success = FALSE, !.missing_end = TRUE, !.brk = TRUE]
    ELSE [error(s, SYMBOL_TYPE_ERROR, TRUE, symbol_types[expected_type]) EXCEPT
             !.success = FALSE]

\* one pass through the body of check_syntax's while loop, m being the state
\* method() returns in
check_syntax_body(s, expected_type, m) ==
    IF sym(s).type = expected_type
    THEN m
    ELSE IF sym(s).type = KEYWORDS \/ sym(s).type = CL
    THEN [error(s, END_ERROR, FALSE, NoneId) EXCEPT !.missing_end = TRUE, !.brk = TRUE]
    ELSE error(s, SYMBOL_TYPE_ERROR, TRUE, symbol_types[expected_type])

\* which branch of the loop body a symbol takes
Branch(s, expected_type) ==
    IF sym(s).type = expected_type THEN "method"
    ELSE IF sym(s).type = KEYWORDS \/ sym(s).type = CL THEN "end_error"
    ELSE "type_error"

\* a parse_network that calls monitorlist in the mode the connection list ended in,
\* whatever the device list returned
MonitorMode_connections_only(devicelist_ret, connectionlist_ret) ==
    Truthy(connectionlist_ret)

\* parse_network, lines 126-137: the mode monitorlist is called in, given what
\* devicelist and connectionlist returned
MonitorMode(devicelist_ret, connectionlist_ret) ==
    IF ~Truthy(devicelist_ret) THEN FALSE
    ELSE IF ~Truthy(connectionlist_ret) THEN FALSE
    ELSE TRUE

\* a devicelist that expects END after a failed build_list whatever missing_end says
devicelist_close_expecting_end(s) ==
    IF ~s.success
    THEN Ret(check_end([s EXCEPT !.missing_end = FALSE], TRUE), PyFalse)
    ELSE Ret(check_end(s, TRUE), PyTrue)

\* devicelist, lines 166-176: after build_list returned
devicelist_close(s) ==
    IF ~s.success
    THEN Ret(IF ~s.missing_end THEN check_end(s, TRUE)
             ELSE [s EXCEPT !.missing_end = FALSE], PyFalse)
    ELSE Ret(check_end(s, TRUE), PyTrue)

\* a connectionlist that reports unconnected inputs and returns True all the same
connectionlist_checked_true(s, ok) ==
    Ret(check_end(IF ~ok THEN error(s, UNCONNECTED_INPUTS, FALSE, NoneId) ELSE s, TRUE),
        PyTrue)

\* connectionlist, lines 204-212: network.check_network() returned ok
connectionlist_checked(s, ok) ==
    IF ~ok
    THEN Ret(check_end(error(s, UNCONNECTED_INPUTS, FALSE, NoneId), TRUE), PyFalse)
    ELSE Ret(check_end(s, TRUE), PyTrue)

\* connectionlist, lines 190-212: after build_list or check_syntax returned
connectionlist_close(s, semantic) ==
    IF semantic /\ ~s.success
    THEN Ret(IF ~s.missing_end THEN check_end(s, TRUE)
             ELSE [s EXCEPT !.missing_end = FALSE], PyFalse)
    ELSE IF ~semantic /\ s.missing_end
    THEN Ret([s EXCEPT !.missing_end = FALSE], PyNone)
    ELSE IF semantic
    THEN connectionlist_checked(
             Call(s, "check_network", <<>>, NoProperty,
                  IF check_network(s.devices_list, s.connections) THEN PyTrue ELSE PyFalse),
             check_network(s.devices_list, s.connections))
    ELSE Ret(check_end(s, TRUE), PyTrue)

\* a monitorlist that lets symbols follow the END of the monitor list unreported
monitorlist_eof_unreported(s) == Ret(s, PyNone)

\* monitorlist, lines 237-239: end of file is expected
monitorlist_eof(s) ==
    Ret(IF sym(s).id # EOF THEN error(s, NO_EOF, FALSE, NoneId) ELSE s, PyNone)

\* a monitorlist that misses the monitor points in syntax-only mode as well
monitorlist_close_any_mode(s, semantic) ==
    monitorlist_eof(check_end(IF s.monitors_dictionary = {}
                              THEN error(s, NO_MONITOR, FALSE, NoneId) ELSE s,
                              FALSE))

\* monitorlist, lines 227-239: after build_list or check_syntax returned
monitorlist_close(s, semantic) ==
    monitorlist_eof(check_end(IF semantic /\ s.monitors_dictionary = {}
                              THEN error(s, NO_MONITOR, FALSE, NoneId) ELSE s,
                              FALSE))

\* parse_network, lines 139-151: the value returned
parse_network_result(s) ==
    IF sym(s).id = EOF /\ s.error_count = 0 THEN PyTrue ELSE PyFalse

---------------------------------------------------------------------------
(* The state machine: parse_network and the three list routines, one       *)
(* action per step between two loop iterations.                            *)

State ==
    [pos |-> pos, error_count |-> error_count, error_messages |-> error_messages,
     missing_end |-> missing_end, reached_eof |-> reached_eof,
     devices_list |-> devices_list, connections |-> connections,
     monitors_dictionary |-> monitors_dictionary, success |-> success,
     calls |-> calls, recoveries |-> recoveries, ios |-> ios,
     ret |-> PyNone, io |-> NonePair, brk |-> FALSE]

Commit(s) ==
    /\ pos' = s.pos
    /\ error_count' = s.error_count
    /\ error_messages' = s.error_messages
    /\ missing_end' = s.missing_end
    /\ reached_eof' = s.reached_eof
    /\ devices_list' = s.devices_list
    /\ connections' = s.connections
    /\ monitors_dictionary' = s.monitors_dictionary
    /\ success' = s.success
    /\ calls' = s.calls
    /\ recoveries' = s.recoveries
    /\ ios' = s.ios
    /\ UNCHANGED <<defi_file, scanner, returned, gui_vars>>

\* the history entry of one loop iteration that took the state from s to t
ItemEntry(list, s, t, expected_type) ==
    [list |-> list, semantic_checks |-> semantic_checks,
     from |-> s.pos, to |-> t.pos, branch |-> Branch(s, expected_type), ret |-> t.ret,
     calls |-> SubSeq(t.calls, Len(s.calls) + 1, Len(t.calls)),
     errors |-> t.error_count - s.error_count]

\* where a list routine goes after its header or after a loop iteration
AfterItem(t, loop, close) == IF t.brk \/ ~in_list(t) THEN close ELSE loop

\* a list routine returned r in state t: parse_network calls the next one
Returned(t, routine, r, next, mode) ==
    /\ Commit(t)
    /\ rets' = [rets EXCEPT ![routine] = r]
    /\ pc' = next
    /\ semantic_checks' = mode

\* the list keyword was checked with outcome t
Header(t, routine, next, mode, loop, close) ==
    IF Truthy(t.ret)
    THEN /\ Commit([t EXCEPT !.success = TRUE])
         /\ pc' = AfterItem(t, loop, close)
         /\ UNCHANGED <<rets, semantic_checks>>
    ELSE Returned(t, routine, IF routine = "monitorlist" THEN PyNone ELSE PyFalse,
                  next, mode)

\* one loop iteration took the state to t
Iteration(t, list, expected_type, loop, close) ==
    /\ Commit(t)
    /\ items' = Append(items, ItemEntry(list, State, t, expected_type))
    /\ pc' = AfterItem(t, loop, close)
    /\ UNCHANGED <<tokens, semantic_checks, rets>>

\* parse_network, line 123: the first symbol is read
Start ==
    /\ pc = "parse_network"
    /\ Commit(get_symbol(State))
    /\ pc' = "devicelist"
    /\ UNCHANGED <<tokens, semantic_checks, rets, items>>

\* devicelist, lines 156-163: the reached_eof test and the list keyword
DeviceListHeader ==
    /\ pc = "devicelist"
    /\ IF reached_eof
       THEN Returned(State, "devicelist", PyNone, "connectionlist", FALSE)
       ELSE Header(check_keyword(State, DEVICE_LIST), "devicelist",
                   "connectionlist", FALSE, "device_items", "device_close")
    /\ UNCHANGED <<tokens, items>>

\* build_list(DEVICETYPE, device), lines 405-420: one iteration
DeviceItem ==
    /\ pc = "device_items"
    /\ Iteration(build_list_body(State, DEVICETYPE, device(State)), DEVICE_LIST, DEVICETYPE,
                 "device_items", "device_close")

\* devicelist returns what devicelist_close made of it
DeviceListReturn(t) ==
    Returned(t, "devicelist", t.ret, "connectionlist", Truthy(t.ret))

\* devicelist, lines 166-176: after build_list returned
DeviceListClose ==
    /\ pc = "device_close"
    /\ DeviceListReturn(devicelist_close(State))
    /\ UNCHANGED <<tokens, items>>

\* connectionlist, lines 181-188: the reached_eof test and the list keyword
ConnectionListHeader ==
    /\ pc = "connectionlist"
    /\ IF reached_eof
       THEN Returned(State, "connectionlist", PyTrue, "monitorlist",
                     MonitorMode(rets.devicelist, PyTrue))
       ELSE Header(check_keyword(State, CONNECTION_LIST), "connectionlist",
                   "monitorlist", MonitorMode(rets.devicelist, PyFalse),
                   "connect_items", "connect_close")
    /\ UNCHANGED <<tokens, items>>

\* build_list(NAMES, connect), lines 405-420: one iteration
ConnectItem ==
    /\ pc = "connect_items"
    /\ semantic_checks
    /\ Iteration(build_list_body(State, NAMES, connect(State)), CONNECTION_LIST, NAMES,
                 "connect_items", "connect_close")

\* check_syntax(NAMES, connect_syntax), lines 427-438: one iteration
ConnectSyntaxItem ==
    /\ pc = "connect_items"
    /\ ~semantic_checks
    /\ Iteration(check_syntax_body(State, NAMES, connect_syntax(State)), CONNECTION_LIST, NAMES,
                 "connect_items", "connect_close")

\* connectionlist returns what connectionlist_close made of it
ConnectionListReturn(t) ==
    Returned(t, "connectionlist", t.ret, "monitorlist",
             MonitorMode(rets.devicelist, t.ret))

\* connectionlist, lines 190-212: after build_list or check_syntax returned
ConnectionListClose ==
    /\ pc = "connect_close"
    /\ ConnectionListReturn(connectionlist_close(State, semantic_checks))
    /\ UNCHANGED <<tokens, items>>

\* a monitorlist that checks its keyword without the reached_eof test
MonitorListHeader_untested ==
    /\ pc = "monitorlist"
    /\ Header(check_keyword(State, MONITOR_LIST), "monitorlist",
              "return", semantic_checks, "monitor_items", "monitor_close")
    /\ UNCHANGED <<tokens, items>>

\* monitorlist, lines 217-224: the reached_eof test and the list keyword
MonitorListHeader ==
    /\ pc = "monitorlist"
    /\ IF reached_eof
       THEN Returned(State, "monitorlist", PyNone, "return", semantic_checks)
       ELSE Header(check_keyword(State, MONITOR_LIST), "monitorlist",
                   "return", semantic_checks, "monitor_items", "monitor_close")
    /\ UNCHANGED <<tokens, items>>

\* build_list(NAMES, monitor), lines 405-420: one iteration
MonitorItem ==
    /\ pc = "monitor_items"
    /\ semantic_checks
    /\ Iteration(build_list_body(State, NAMES, monitor(State)), MONITOR_LIST, NAMES,
                 "monitor_items", "monitor_close")

\* check_syntax(NAMES, monitor_syntax), lines 427-438: one iteration
MonitorSyntaxItem ==
    /\ pc = "monitor_items"
    /\ ~semantic_checks
    /\ Iteration(check_syntax_body(State, NAMES, monitor_syntax(State)), MONITOR_LIST, NAMES,
                 "monitor_items", "monitor_close")

\* monitorlist, lines 227-239: after build_list or check_syntax returned
MonitorListClose ==
    /\ pc = "monitor_close"
    /\ Returned(monitorlist_close(State, semantic_checks), "monitorlist", PyNone,
                "return", semantic_checks)
    /\ UNCHANGED <<tokens, items>>

\* parse_network, lines 139-151: the value returned
Finish ==
    /\ pc = "return"
    /\ rets' = [rets EXCEPT !.parse_network = parse_network_result(State)]
    /\ pc' = "done"
    /\ UNCHANGED <<tokens, pos, error_count, error_messages, missing_end, reached_eof,
                   devices_list, connections, monitors_dictionary, semantic_checks,
                   success, calls, recoveries, items, ios, defi_file, scanner, returned,
                   gui_vars>>

Next ==
    \/ Start
    \/ DeviceListHeader
    \/ DeviceItem
    \/ DeviceListClose
    \/ ConnectionListHeader
    \/ ConnectItem
    \/ ConnectSyntaxItem
    \/ ConnectionListClose
    \/ MonitorListHeader
    \/ MonitorItem
    \/ MonitorSyntaxItem
    \/ MonitorListClose
    \/ Finish

---------------------------------------------------------------------------
(* The definition files the parser is run on.  A file is given by the      *)
(* symbols the scanner makes of it; Place numbers them as the scanner does *)
(* for a one-line file with the symbols one column apart, and ends the     *)
(* sequence with the EOF symbol.                                            *)

Tok(type, id) == [type |-> type, id |-> id]

tDEVICE_LIST == Tok(KEYWORDS, DEVICE_LIST)
tCONNECTION_LIST == Tok(KEYWORDS, CONNECTION_LIST)
tMONITOR_LIST == Tok(KEYWORDS, MONITOR_LIST)
tEND == Tok(KEYWORDS, END)
tCOLON == Tok(CL, COLON)
tSEMI == Tok(SCL, SEMI_COLON)
tARROW == Tok(AR, ARROW)
tPERIOD == Tok(PE, PERIOD)
tON == Tok(PROPERTY, ON)
tBAD == Tok(NoneType, NoneId)      \* '-' not followed by '>'
tName(n) == Tok(NAMES, n)
tNum(n) == Tok(NUMBER, n)
tKind(k) == Tok(DEVICETYPE, k)

RECURSIVE Flatten(_)
Flatten(ss) == IF ss = <<>> THEN <<>> ELSE Head(ss) \o Flatten(Tail(ss))

Place(toks) ==
    [i \in 1..Len(toks) + 1 |->
        IF i <= Len(toks) THEN Symbol(toks[i].type, toks[i].id, 1, i)
        ELSE Symbol(NoneType, EOF, 1, i)]

\* device items
dSwitch(n) == <<tKind(SWITCH), tName(n), tON, tSEMI>>
dDtype(n) == <<tKind(D_TYPE), tName(n), tSEMI>>
dGate(k, n, inputs) == <<tKind(k), tName(n), tNum(inputs), tSEMI>>
\* connection items
cWire(o, d, pin) == <<tName(o), tARROW, tName(d), tPERIOD, tName(pin), tSEMI>>
cWireQ(o, q, d, pin) ==
    <<tName(o), tPERIOD, tName(q), tARROW, tName(d), tPERIOD, tName(pin), tSEMI>>
\* monitor items
mOut(n) == <<tName(n), tSEMI>>
mOutQ(n, q) == <<tName(n), tPERIOD, tName(q), tSEMI>>

Program(ds, cs, ms) ==
    <<tDEVICE_LIST, tCOLON>> \o Flatten(ds) \o <<tEND>> \o
    <<tCONNECTION_LIST, tCOLON>> \o Flatten(cs) \o <<tEND>> \o
    <<tMONITOR_LIST, tCOLON>> \o Flatten(ms) \o <<tEND>>

\* the files made of at most MaxItems items in each list, each item one of two
MaxItems == 2

RECURSIVE SeqsUpTo(_, _)
SeqsUpTo(S, n) ==
    IF n = 0 THEN {<<>>}
    ELSE LET shorter == SeqsUpTo(S, n - 1)
         IN  shorter \cup {Append(q, x) : q \in shorter, x \in S}

DeviceItems == {dDtype("d"), dSwitch("a")}
ConnectionItems == {cWire("a", "d", "DATA"), cWireQ("d", "Q", "d", "CLK")}
MonitorItems == {mOut("a"), mOutQ("d", "Q")}

ItemFiles ==
    {Program(ds, cs, ms) : ds \in SeqsUpTo(DeviceItems, MaxItems),
                           cs \in SeqsUpTo(ConnectionItems, MaxItems),
                           ms \in SeqsUpTo(MonitorItems, MaxItems)}

\* four files and every file one symbol away from one of them
SmallFile == Program(<<dSwitch("a")>>, <<>>, <<mOut("a")>>)
WiredFile ==
    Program(<<dDtype("d"), dSwitch("a")>>,
            <<cWire("a", "d", "DATA"), cWire("a", "d", "SET"), cWire("a", "d", "CLEAR"),
              cWireQ("d", "QBAR", "d", "CLK")>>,
            <<mOutQ("d", "Q"), mOut("a")>>)
DuplicateFile ==
    Program(<<dSwitch("a"), dSwitch("a")>>, <<cWire("a", "d", "DATA")>>, <<mOut("a")>>)
UnwiredFile ==
    Program(<<dDtype("d"), dSwitch("a")>>, <<cWire("a", "d", "DATA")>>, <<mOutQ("d", "Q")>>)

BaseFiles == {SmallFile, WiredFile, DuplicateFile, UnwiredFile}

EditSymbols ==
    {tDEVICE_LIST, tCONNECTION_LIST, tMONITOR_LIST, tEND, tCOLON, tSEMI, tARROW, tPERIOD,
     tON, tBAD, tName("a"), tName("z"), tNum("2"), tKind(D_TYPE)}

Delete(f, i) == SubSeq(f, 1, i - 1) \o SubSeq(f, i + 1, Len(f))
Replace(f, i, t) == [f EXCEPT ![i] = t]
Insert(f, i, t) == SubSeq(f, 1, i - 1) \o <<t>> \o SubSeq(f, i, Len(f))
Prefix(f, i) == SubSeq(f, 1, i - 1)

Edits(f) ==
    {f} \cup {Delete(f, i) : i \in 1..Len(f)}
        \cup {Prefix(f, i) : i \in 1..Len(f)}
        \cup {Replace(f, i, t) : i \in 1..Len(f), t \in EditSymbols}
        \cup {Insert(f, i, t) : i \in 1..Len(f) + 1, t \in EditSymbols}

EditedFiles == UNION {Edits(f) : f \in BaseFiles}

\* the example program of the definition language: a switch driving both inputs of a gate
ExampleText ==
    <<"D", "E", "V", "I", "C", "E", "_", "L", "I", "S", "T", ":", "\n",
      "S", "W", "I", "T", "C", "H", " ", "s", "w", "1", " ", "O", "F", "F", ";", "\n",
      "A", "N", "D", " ", "g", "1", " ", "2", ";", "\n",
      "E", "N", "D", "\n",
      "C", "O", "N", "N", "E", "C", "T", "I", "O", "N", "_", "L", "I", "S", "T", ":", "\n",
      "s", "w", "1", " ", "-", ">", " ", "g", "1", ".", "1", ";", "\n",
      "s", "w", "1", " ", "-", ">", " ", "g", "1", ".", "2", ";", "\n",
      "E", "N", "D", "\n",
      "M", "O", "N", "I", "T", "O", "R", "_", "L", "I", "S", "T", ":", "\n",
      "g", "1", ";", "\n",
      "E", "N", "D", "\n">>

\* the same program around a D_TYPE, whose pins have names
FlipFlopText ==
    <<"D", "E", "V", "I", "C", "E", "_", "L", "I", "S", "T", ":", "\n",
      "S", "W", "I", "T", "C", "H", " ", "s", "w", "1", " ", "O", "F", "F", ";", "\n",
      "D", "T", "Y", "P", "E", " ", "d", "1", ";", "\n",
      "E", "N", "D", "\n",
      "C", "O", "N", "N", "E", "C", "T", "I", "O", "N", "_", "L", "I", "S", "T", ":", "\n",
      "s", "w", "1", " ", "-", ">", " ", "d", "1", ".", "D", "A", "T", "A", ";", "\n",
      "s", "w", "1", " ", "-", ">", " ", "d", "1", ".", "S", "E", "T", ";", "\n",
      "s", "w", "1", " ", "-", ">", " ", "d", "1", ".", "C", "L", "E", "A", "R", ";", "\n",
      "d", "1", ".", "Q", "B", "A", "R", " ", "-", ">", " ", "d", "1", ".", "C", "L", "K", ";", "\n",
      "E", "N", "D", "\n",
      "M", "O", "N", "I", "T", "O", "R", "_", "L", "I", "S", "T", ":", "\n",
      "d", "1", ".", "Q", ";", "\n",
      "E", "N", "D", "\n">>

\* a switch wired to a pin of itself, and a pin of the switch wired as an output
SelfWiredText ==
    <<"D", "E", "V", "I", "C", "E", "_", "L", "I", "S", "T", ":", "\n",
      "S", "W", "I", "T", "C", "H", " ", "s", "w", "1", " ", "O", "F", "F", ";", "\n",
      "E", "N", "D", "\n",
      "C", "O", "N", "N", "E", "C", "T", "I", "O", "N", "_", "L", "I", "S", "T", ":", "\n",
      "s", "w", "1", " ", "-", ">", " ", "s", "w", "1", ".", "1", ";", "\n",
      "s", "w", "1", ".", "1", " ", "-", ">", " ", "s", "w", "1", ".", "1", ";", "\n",
      "E", "N", "D", "\n",
      "M", "O", "N", "I", "T", "O", "R", "_", "L", "I", "S", "T", ":", "\n",
      "s", "w", "1", ";", "\n",
      "E", "N", "D", "\n">>

ScannedFiles == {ScanFile(ExampleText), ScanFile(FlipFlopText), ScanFile(SelfWiredText)}

\* programs of the definition language whose every pin is written as a name: the
\* flip-flop d fully wired from the switch a and from itself, declared in either
\* order and monitored at up to MaxItems different outputs; the switch alone
Wiring ==
    <<cWire("a", "d", "DATA"), cWire("a", "d", "SET"), cWire("a", "d", "CLEAR"),
      cWireQ("d", "QBAR", "d", "CLK")>>
Declarations == {<<dDtype("d"), dSwitch("a")>>, <<dSwitch("a"), dDtype("d")>>}
Outputs == {mOut("a"), mOutQ("d", "Q"), mOutQ("d", "QBAR")}
MonitorChoices ==
    {ms \in SeqsUpTo(Outputs, MaxItems) :
        /\ ms # <<>>
        /\ \A i, j \in 1..Len(ms) : i # j => ms[i] # ms[j]}
NamedPinFiles ==
    {Program(ds, Wiring, ms) : ds \in Declarations, ms \in MonitorChoices}
        \cup {SmallFile}
NamedPinPrograms == {Place(f) : f \in NamedPinFiles} \cup {ScanFile(FlipFlopText)}

Files == ItemFiles \cup EditedFiles \cup NamedPinFiles

\* Parser.__init__, lines 86-98: the parser before parse_network is called
ParserInit ==
    /\ pc = "parse_network"
    /\ pos = 0
    /\ error_count = 0
    /\ error_messages = <<>>
    /\ missing_end = FALSE
    /\ reached_eof = FALSE
    /\ devices_list = <<>>
    /\ connections = {}
    /\ monitors_dictionary = {}
    /\ semantic_checks = TRUE
    /\ success = TRUE
    /\ rets = [devicelist |-> Pending, connectionlist |-> Pending,
               monitorlist |-> Pending, parse_network |-> Pending]
    /\ calls = <<>>
    /\ recoveries = <<>>
    /\ items = <<>>
    /\ ios = <<>>

\* ControlPanel.__init__, line 793, before any simulation
ControlPanelInit ==
    /\ cycles_completed = 0
    /\ signal = LOW
    /\ traces = <<>>
    /\ sim = <<>>

Init ==
    /\ tokens \in {Place(f) : f \in Files} \cup ScannedFiles
    /\ ParserInit
    /\ ControlPanelInit
    /\ defi_file = <<>>
    /\ scanner = ScannerInit
    /\ returned = <<>>

Spec == Init /\ [][Next]_vars

---------------------------------------------------------------------------
(* The scanner on its own: get_symbol is called on a text until it has     *)
(* returned EOF, and MaxEofCalls times more.                                *)

MaxLen == 3
MaxEofCalls == 1
MaxPieces == 4

\* the characters of the texts: a letter, two digits, the underscore, white space,
\* the punctuation, the characters of the arrow and of comments, and one of no use
Alphabet == {"x", "0", "1", "_", " ", "\n", ":", ";", ".", "-", ">", "/", "*", "#"}

\* the reserved words, and three words that are none
Words ==
    {<<"D", "E", "V", "I", "C", "E", "_", "L", "I", "S", "T">>,
     <<"C", "O", "N", "N", "E", "C", "T", "I", "O", "N", "_", "L", "I", "S", "T">>,
     <<"M", "O", "N", "I", "T", "O", "R", "_", "L", "I", "S", "T">>,
     <<"E", "N", "D">>,
     <<"A", "N", "D">>,
     <<"N", "A", "N", "D">>,
     <<"O", "R">>,
     <<"N", "O", "R">>,
     <<"X", "O", "R">>,
     <<"D", "T", "Y", "P", "E">>,
     <<"C", "L", "O", "C", "K">>,
     <<"S", "W", "I", "T", "C", "H">>,
     <<"S", "I", "G", "G", "E", "N">>,
     <<"O", "F", "F">>,
     <<"O", "N">>,
     <<"e", "n", "d">>,
     <<"O", "n">>,
     <<"E", "N", "D", "S">>}

\* the pieces of the texts with comments: the marks of the comments, a star, a
\* name and the end of a line
Pieces == {<<"/", "*">>, <<"*", "/">>, <<"/", "/">>, <<"*">>, <<"x">>, <<"\n">>}

\* texts with comments next to names and to one another, on one line and on two
CommentTexts ==
    {<<"x", "/", "*", "x", "*", "/", "x">>,
     <<"x", "/", "*", "*", "*", "/", "x">>,
     <<"/", "*", "x", "*", "*", "/", "x">>,
     <<"/", "/", "x", "\n", "x", "/", "/">>,
     <<"/", "/", "\n", "/", "*", "*", "/", "x">>,
     <<"/", "*", "x", "*", "/", "/", "/", "x", "\n", "/", "*", "\n", "*", "/", "x">>}

\* every text of at most MaxLen characters, every word alone or between two
\* characters, every text of at most MaxPieces pieces, and the texts with comments
Texts ==
    SeqsUpTo(Alphabet, MaxLen)
        \cup {a \o w \o b : a \in SeqsUpTo(Alphabet, 1), w \in Words,
                            b \in SeqsUpTo(Alphabet, 1)}
        \cup {Flatten(q) : q \in SeqsUpTo(Pieces, MaxPieces)}
        \cup CommentTexts

IsEof(symbol) == symbol.type = NoneType /\ symbol.id = EOF

\* the calls of get_symbol that returned EOF
EofCalls == {k \in 1..Len(returned) : IsEof(returned[k].symbol)}

\* Scanner.__init__ on a text, lines 68-75; the parser is not started
ScannerStart ==
    /\ defi_file \in Texts
    /\ tokens = ScanFile(defi_file)
    /\ scanner = ScannerInit
    /\ returned = <<>>
    /\ ParserInit
    /\ ControlPanelInit

\* the parser whose current symbol is the one the next call of get_symbol returns
Current == [State EXCEPT !.pos = Len(returned) + 1]

\* one call of Scanner.get_symbol(), and Parser.get_property for every kind of
\* device with the symbol returned for the current symbol
GetSymbol ==
    /\ Cardinality(EofCalls) <= MaxEofCalls
    /\ scanner' = scanner_get_symbol(defi_file, scanner).sc
    /\ returned' = Append(returned,
           [symbol |-> scanner_get_symbol(defi_file, scanner).symbol,
            before |-> scanner, after |-> scanner',
            property |-> [type \in device_keywords |->
                             get_property(Current, type)]])
    /\ UNCHANGED <<tokens, pc, pos, error_count, error_messages, missing_end,
                   reached_eof, devices_list, connections, monitors_dictionary,
                   semantic_checks, success, rets, calls, recoveries, items, ios,
                   defi_file, gui_vars>>

ScannerNext == GetSymbol

ScannerSpec == ScannerStart /\ [][ScannerNext]_vars

---------------------------------------------------------------------------
(* Properties of the parser.                                               *)

\* the run of parse_network is over
Done == pc = "done"

\* C1: parse_network returns True exactly when no error was recorded during the
\* pass (error_count = 0 and the list of error entries is empty), the current
\* symbol then being EOF; with at least one error entry it returns False.
C1_TrueExactlyWithoutErrors ==
    Done =>
        /\ (rets.parse_network = PyTrue) <=> (error_count = 0 /\ error_messages = <<>>)
        /\ rets.parse_network = PyTrue => tokens[pos].id = EOF /\ tokens[pos].type = NoneType
        /\ Len(error_messages) >= 1 => rets.parse_network = PyFalse
        /\ rets.parse_network \in {PyTrue, PyFalse}

\* a file with connections was parsed without an error
C1_Witness ==
    /\ Done
    /\ rets.parse_network = PyTrue
    /\ error_messages = <<>>
    /\ connections # {}
    /\ pos = Len(tokens)

DevicesBuilt == rets.devicelist = PyTrue
ConnectionsBuilt == rets.devicelist = PyTrue /\ rets.connectionlist = PyTrue

\* C3: a section is processed in build mode only if no section before it failed:
\* make_connection and check_network are called only after devicelist returned
\* True, make_monitor only after devicelist and connectionlist both returned True;
\* after a failure the items of the later sections are taken by connect_syntax
\* and monitor_syntax, which make no construction call.
C3_BuildOnlyAfterSuccess ==
    /\ \A k \in 1..Len(calls) :
          /\ calls[k].op \in {"make_connection", "check_network"} => DevicesBuilt
          /\ calls[k].op = "make_monitor" => ConnectionsBuilt
    /\ pc \in {"connect_items", "connect_close"} => (semantic_checks <=> DevicesBuilt)
    /\ pc \in {"monitor_items", "monitor_close"} => (semantic_checks <=> ConnectionsBuilt)
    /\ \A k \in 1..Len(items) :
          /\ items[k].list = CONNECTION_LIST => (items[k].semantic_checks <=> DevicesBuilt)
          /\ items[k].list = MONITOR_LIST => (items[k].semantic_checks <=> ConnectionsBuilt)
          /\ ~items[k].semantic_checks => items[k].calls = <<>>

\* the device list failed, and the items of both later lists were still scanned, an
\* error found in the monitor list
C3_Witness ==
    /\ Done
    /\ rets.devicelist = PyFalse
    /\ \E k \in 1..Len(items) :
          items[k].list = CONNECTION_LIST /\ items[k].branch = "method"
    /\ \E k \in 1..Len(items) :
          items[k].list = MONITOR_LIST /\ items[k].branch = "method" /\ items[k].errors = 1

\* the symbols k and k + 1 are a list keyword and a colon
IsHeader(k, keyword) ==
    k + 1 <= Len(tokens) /\ tokens[k].id = keyword /\ tokens[k + 1].type = CL

\* the symbols a..b are the items of a list closed by END at symbol b + 1
IsListBody(a, b) ==
    /\ b + 1 <= Len(tokens)
    /\ tokens[b + 1].id = END
    /\ \A k \in a..b : tokens[k].id # END /\ tokens[k].id # EOF

\* the file is DEVICE_LIST ':' items END CONNECTION_LIST ':' items END
\* MONITOR_LIST ':' items END and then ends; e1 and e2 are the first two ENDs
ThreeSections ==
    \E e1, e2 \in 1..Len(tokens) :
        /\ IsHeader(1, DEVICE_LIST)
        /\ IsListBody(3, e1 - 1)
        /\ IsHeader(e1 + 1, CONNECTION_LIST)
        /\ IsListBody(e1 + 3, e2 - 1)
        /\ IsHeader(e2 + 1, MONITOR_LIST)
        /\ IsListBody(e2 + 3, Len(tokens) - 2)
        /\ tokens[Len(tokens)].id = EOF

\* C4: parse_network returns True only if the symbols are, in this order,
\* DEVICE_LIST ':' items END, CONNECTION_LIST ':' items END, MONITOR_LIST ':'
\* items END and then EOF; a file of any other shape (a header missing or out of
\* order, a colon missing after a header, an END missing, a symbol after the
\* last END) has at least one error recorded.
C4_TrueOnlyForThreeSections ==
    Done =>
        /\ rets.parse_network = PyTrue => ThreeSections
        /\ ~ThreeSections => error_count >= 1 /\ rets.parse_network = PyFalse

\* a file whose only defect is a symbol after the last END
C4_Witness ==
    /\ Done
    /\ ~ThreeSections
    /\ error_count = 1
    /\ error_messages[1].error_type = NO_EOF
    /\ tokens[pos - 1].id = END

\* the k-th loop iteration was one of build_list in the device list
IsDeviceItem(k) == k \in 1..Len(items) /\ items[k].list = DEVICE_LIST

\* the k-th loop iteration called device(), which returned True
ItemSucceeded(k) == items[k].branch = "method" /\ items[k].ret = PyTrue

\* a device of this name was made in an iteration before the k-th
MadeBefore(k, name) ==
    \E j \in 1..k - 1 : \E c \in 1..Len(items[j].calls) :
        /\ items[j].calls[c].op = "make_device"
        /\ items[j].calls[c].args[1] = name
        /\ items[j].calls[c].res = devices_NO_ERROR

\* C5: in the device list a failing item does not end the section: unless its
\* error recovery stopped at END or EOF, build_list goes on with the symbol after
\* the recovery, and an item there that is a device type and a name not taken
\* yet is passed to devices.make_device; build_list returns True if and only if
\* every item succeeded and no symbol of a wrong kind was met.
C5_FailingItemDoesNotAbort ==
    /\ \A k \in 1..Len(items) :
          IsDeviceItem(k) /\ items[k].branch # "end_error" /\ ~ItemSucceeded(k)
              /\ tokens[items[k].to].id \notin {END, EOF} =>
                  \/ k = Len(items) /\ pc = "device_items" /\ pos = items[k].to
                  \/ IsDeviceItem(k + 1) /\ items[k + 1].from = items[k].to
    /\ \A k \in 1..Len(items) :
          IsDeviceItem(k) /\ tokens[items[k].from].type = DEVICETYPE
              /\ tokens[items[k].from + 1].type = NAMES
              /\ ~MadeBefore(k, tokens[items[k].from + 1].id) =>
                  /\ Len(items[k].calls) = 1
                  /\ items[k].calls[1].op = "make_device"
                  /\ items[k].calls[1].args =
                         <<tokens[items[k].from + 1].id, tokens[items[k].from].id>>
    /\ pc = "device_close" => (success <=> \A k \in 1..Len(items) : ItemSucceeded(k))
    /\ rets.devicelist = PyTrue => \A k \in 1..Len(items) : IsDeviceItem(k) => ItemSucceeded(k)

\* an item of the device list failed, a later one was made into a device, and
\* build_list returned False
C5_Witness ==
    /\ pc = "device_close"
    /\ ~success
    /\ \E j, k \in 1..Len(items) :
          /\ j < k
          /\ items[j].branch = "method" /\ items[j].ret = PyFalse
          /\ ItemSucceeded(k)
          /\ Len(items[k].calls) = 1 /\ items[k].calls[1].res = devices_NO_ERROR
    /\ devices_list # <<>>

\* the stopping set of an error: EOF always, END for the errors of a list header,
\* every list keyword for an END error, ';' and END for the errors of an item
StoppingSet(error_type) ==
    {EOF} \cup
    IF error_type \in {KEYWORD_ERROR, SYNTAX_COLON} THEN {END}
    ELSE IF error_type = END_ERROR
    THEN {DEVICE_LIST, CONNECTION_LIST, MONITOR_LIST, END}
    ELSE {SEMI_COLON, END}

\* C6: for every error reported with recovery the parser skips symbols up to the
\* first one whose id is in the error's stopping set, none of that set being
\* skipped, returns the id of that symbol and, unless it is EOF, reads the symbol
\* after it, where parsing resumes.
C6_RecoveryStopsAtFirstStop ==
    \A k \in 1..Len(recoveries) :
        recoveries[k].advance_symbol =>
            /\ recoveries[k].from <= recoveries[k].landed
            /\ tokens[recoveries[k].landed].id \in StoppingSet(recoveries[k].error_type)
            /\ \A j \in recoveries[k].from..recoveries[k].landed - 1 :
                  tokens[j].id \notin StoppingSet(recoveries[k].error_type)
            /\ recoveries[k].stop = tokens[recoveries[k].landed].id
            /\ recoveries[k].resumed =
                  IF recoveries[k].stop = EOF THEN recoveries[k].landed
                  ELSE recoveries[k].landed + 1
            /\ pos >= recoveries[k].resumed
            /\ k < Len(recoveries) => recoveries[k + 1].from >= recoveries[k].resumed
            /\ \A j \in 1..Len(items) :
                  items[j].from <= recoveries[k].from /\ recoveries[k].from < items[j].to =>
                      items[j].to = recoveries[k].resumed

\* a recovery skipped symbols, stopped at a ';' and the parser went on after it
C6_Witness ==
    \E k \in 1..Len(recoveries) :
        /\ recoveries[k].advance_symbol
        /\ recoveries[k].landed > recoveries[k].from + 1
        /\ recoveries[k].stop = SEMI_COLON
        /\ pos = recoveries[k].landed + 1
        /\ tokens[pos].id # EOF

\* C7: once error recovery has reached EOF (reached_eof is set) every section
\* routine entered afterwards returns at once: it reads no symbol, calls no
\* construction operation and records no error, so that a section missing from
\* there on is not reported.
C7_SectionsAbsentAfterEof ==
    [][reached_eof /\ pc \in {"devicelist", "connectionlist", "monitorlist"} =>
           /\ pos' = pos
           /\ calls' = calls
           /\ devices_list' = devices_list
           /\ connections' = connections
           /\ monitors_dictionary' = monitors_dictionary
           /\ error_count' = error_count
           /\ error_messages' = error_messages
           /\ recoveries' = recoveries
           /\ items' = items
           /\ pc' \in {"connectionlist", "monitorlist", "return"}]_vars

\* recovery reached EOF in the device list of a file without the two other lists,
\* connectionlist and monitorlist have returned and the only errors are those of
\* the device list
C7_Witness ==
    /\ pc = "return"
    /\ reached_eof
    /\ rets.devicelist = PyFalse
    /\ rets.connectionlist = PyTrue
    /\ rets.monitorlist = PyNone
    /\ \A k \in 1..Len(tokens) : tokens[k].id \notin {CONNECTION_LIST, MONITOR_LIST}
    /\ \A k \in 1..Len(error_messages) : error_messages[k].error_type # KEYWORD_ERROR
    /\ devices_list # <<>>

\* C8 as stated: when EOF is reached during the recovery of an error inside a
\* section, that error is the last entry of the error report: no error is
\* recorded after reached_eof became true.
C8_EofErrorIsLast ==
    \A k \in 1..Len(recoveries) :
        recoveries[k].advance_symbol /\ recoveries[k].stop = EOF => k = Len(recoveries)

\* the k-th loop iteration, in the device list or the connection list, met a list
\* keyword other than END, or a colon, where an item or END is expected
MetKeyword(k) ==
    /\ items[k].list \in {DEVICE_LIST, CONNECTION_LIST}
    /\ \/ tokens[items[k].from].id \in {DEVICE_LIST, CONNECTION_LIST, MONITOR_LIST}
       \/ tokens[items[k].from].type = CL

\* the section routine of a list, the value it returned, and where parse_network is
\* when the next routine is about to check its keyword
RoutineRet(list) == IF list = DEVICE_LIST THEN rets.devicelist ELSE rets.connectionlist
NextHeader(list) == IF list = DEVICE_LIST THEN "connectionlist" ELSE "monitorlist"

\* the END errors recorded at symbol p
EndErrorsAt(p) ==
    {r \in 1..Len(recoveries) :
        recoveries[r].error_type = END_ERROR /\ recoveries[r].from = p}

\* C9: where an item or END is expected in the device list or the connection list
\* and the current symbol is a list keyword or a colon, one END error is recorded
\* at that symbol, the symbol is not read past, no further item of the section
\* is attempted, the section routine returns a false value, and the next
\* section's keyword check starts at that same symbol.
C9_KeywordEndsSection ==
    \A k \in 1..Len(items) :
        MetKeyword(k) =>
            /\ items[k].errors = 1
            /\ items[k].to = items[k].from
            /\ items[k].calls = <<>>
            /\ Cardinality(EndErrorsAt(items[k].from)) = 1
            /\ \A r \in EndErrorsAt(items[k].from) :
                  /\ ~recoveries[r].advance_symbol
                  /\ recoveries[r].resumed = items[k].from
                  /\ error_messages[r].error_type = END_ERROR
                  /\ error_messages[r].colnum = tokens[items[k].from].colnum
                  /\ error_messages[r].linenum = tokens[items[k].from].linenum
            /\ \A j \in k + 1..Len(items) : items[j].list # items[k].list
            /\ RoutineRet(items[k].list) \in {Pending, PyFalse, PyNone}
            /\ pc = NextHeader(items[k].list) =>
                  /\ pos = items[k].from
                  /\ ~Truthy(RoutineRet(items[k].list))
                  /\ Len(recoveries) \in EndErrorsAt(items[k].from)
                  /\ ~missing_end

\* the END of the device list is missing: the END error is the only error, and the
\* keyword CONNECTION_LIST it was recorded at was then taken as the header of the
\* connection list
C9_Witness ==
    /\ pc \in {"connect_items", "connect_close"}
    /\ items # <<>>
    /\ MetKeyword(Len(items))
    /\ items[Len(items)].list = DEVICE_LIST
    /\ tokens[items[Len(items)].from].id = CONNECTION_LIST
    /\ pos = items[Len(items)].from + 2
    /\ error_count = 1
    /\ rets.devicelist = PyFalse
    /\ ~semantic_checks

\* the calls of network.check_network that returned False
ChecksFailed == {c \in 1..Len(calls) : calls[c].op = "check_network" /\ calls[c].res = PyFalse}

\* the UNCONNECTED_INPUTS errors recorded
UnconnectedErrors ==
    {r \in 1..Len(recoveries) : recoveries[r].error_type = UNCONNECTED_INPUTS}

\* the input pins no connection drives
UndrivenInputs ==
    {p \in UNION {{<<devices_list[i].device_id, pin>> : pin \in InputPins(devices_list[i])} :
                     i \in 1..Len(devices_list)} :
        ~\E c \in connections : c.in_id = p[1] /\ c.in_port = p[2]}

\* C10: when, after a connection list whose items were all built without error,
\* network.check_network reports an undriven input, exactly one
\* UNCONNECTED_INPUTS error is recorded however many inputs are undriven, no
\* symbol is skipped for it, connectionlist returns False, and the monitor list
\* is then processed in syntax-only mode.
C10_OneUnconnectedInputsError ==
    /\ ChecksFailed # {} <=> UnconnectedErrors # {}
    /\ ChecksFailed # {} =>
          /\ Cardinality(ChecksFailed) = 1
          /\ Cardinality(UnconnectedErrors) = 1
          /\ UnconnectedErrors = {1}
          /\ error_messages[1].error_type = UNCONNECTED_INPUTS
          /\ \A c \in ChecksFailed :
                /\ ~recoveries[1].advance_symbol
                /\ recoveries[1].from = calls[c].at
                /\ recoveries[1].landed = calls[c].at
                /\ recoveries[1].resumed = calls[c].at
                /\ \A k \in 1..Len(items) :
                      items[k].list = CONNECTION_LIST =>
                          ItemSucceeded(k) /\ items[k].to <= calls[c].at
          /\ rets.connectionlist = PyFalse
          /\ UndrivenInputs # {}
          /\ pc \in {"monitor_items", "monitor_close"} => ~semantic_checks
          /\ \A k \in 1..Len(items) : items[k].list = MONITOR_LIST => ~items[k].semantic_checks
          /\ \A c \in 1..Len(calls) : calls[c].op # "make_monitor"
          /\ monitors_dictionary = {}

\* several inputs were left undriven, one error was recorded for them all, and the
\* items of the monitor list were taken by monitor_syntax
C10_Witness ==
    /\ Done
    /\ ChecksFailed # {}
    /\ Cardinality(UndrivenInputs) >= 3
    /\ error_count = 1
    /\ connections # {}
    /\ \E k \in 1..Len(items) : items[k].list = MONITOR_LIST /\ items[k].branch = "method"

\* the NO_MONITOR errors among the errors k..Len(r) of the history r
NoMonitorErrors(r, k) == {e \in k..Len(r) : r[e].error_type = NO_MONITOR}

\* C11: in build mode, when no monitor point is registered after the items of the
\* monitor list were processed, exactly one NO_MONITOR error is recorded and no
\* symbol is skipped for it; END and then EOF are still checked for, and
\* parse_network returns False.  In syntax-only mode, and anywhere else, no
\* NO_MONITOR error is recorded.
C11_OneNoMonitorError ==
    [][/\ pc = "monitor_close" /\ semantic_checks /\ monitors_dictionary = {} =>
              /\ NoMonitorErrors(recoveries', 1) = {Len(recoveries) + 1}
              /\ recoveries'[Len(recoveries) + 1] =
                     [error_type |-> NO_MONITOR, advance_symbol |-> FALSE, from |-> pos,
                      landed |-> pos, resumed |-> pos, stop |-> NoneId]
              /\ error_messages'[Len(recoveries) + 1].colnum = tokens[pos].colnum
              /\ IF tokens[pos].id = END
                 THEN /\ pos' = pos + 1
                      /\ Len(recoveries') =
                             Len(recoveries) + (IF tokens[pos + 1].id = EOF THEN 1 ELSE 2)
                 ELSE /\ pos' = pos
                      /\ recoveries'[Len(recoveries) + 2].error_type = END_ERROR
                      /\ Len(recoveries') =
                             Len(recoveries) + (IF tokens[pos].id = EOF THEN 2 ELSE 3)
              /\ tokens[pos'].id # EOF =>
                     recoveries'[Len(recoveries')].error_type = NO_EOF
       /\ ~(pc = "monitor_close" /\ semantic_checks /\ monitors_dictionary = {}) =>
              NoMonitorErrors(recoveries', Len(recoveries) + 1) = {}
       /\ pc' = "done" /\ NoMonitorErrors(recoveries', 1) # {} =>
              rets'.parse_network = PyFalse]_vars

\* a file whose only defect is an empty monitor list was parsed in build mode
C11_Witness ==
    /\ Done
    /\ ConnectionsBuilt
    /\ error_count = 1
    /\ error_messages[1].error_type = NO_MONITOR
    /\ tokens[pos].id = EOF
    /\ rets.parse_network = PyFalse

\* the k-th call of get_io was made at the name of a declared device
IoDeclared(k) == ios[k].device # NoDevice

\* the k-th call of get_io was for an input, or for an output of a D_TYPE
IoExpectsPin(k) ==
    ios[k].io = INPUT \/ (IoDeclared(k) /\ ios[k].device.device_kind = D_TYPE)

\* the symbol after the name of the k-th call is a period; a name follows the period
IoPeriod(k) == tokens[ios[k].from + 1].type = PE
IoPinName(k) == IoPeriod(k) /\ tokens[ios[k].from + 2].type = NAMES

\* the k-th call of get_io recorded the one error error_type and returned (None, None)
IoFails(k, error_type) ==
    /\ Len(ios[k].errors) = 1
    /\ ios[k].errors[1].error_type = error_type
    /\ ios[k].pair = NonePair

\* C12: get_io returns (device, pin) without an error exactly when the name is a
\* declared device and either it is an input or a D_TYPE output followed by a
\* period and a name, the pin being that name, or it is an output of another
\* kind of device not followed by a period, the pin being None.  In every other
\* case it records exactly one error and returns (None, None): NO_DEVICE for an
\* undeclared name, IDENTIFIER_PRESENT for a period after an output of no
\* D_TYPE, SYNTAX for a missing period, NO_IDENTIFIER for no name after the period.
C12_GetIoOutcome ==
    \A k \in 1..Len(ios) :
        /\ tokens[ios[k].from].type = NAMES
        /\ IF ~IoDeclared(k) THEN IoFails(k, NO_DEVICE)
           ELSE IF IoExpectsPin(k) /\ IoPinName(k)
           THEN /\ ios[k].errors = <<>>
                /\ ios[k].pair = [io_id |-> tokens[ios[k].from].id,
                                  io_port |-> tokens[ios[k].from + 2].id]
                /\ ios[k].to = ios[k].from + 3
           ELSE IF ~IoExpectsPin(k) /\ ~IoPeriod(k)
           THEN /\ ios[k].errors = <<>>
                /\ ios[k].pair = [io_id |-> tokens[ios[k].from].id, io_port |-> NoneId]
                /\ ios[k].to = ios[k].from + 1
           ELSE IF ~IoExpectsPin(k) THEN IoFails(k, IDENTIFIER_PRESENT)
           ELSE IF ~IoPeriod(k)
           THEN IoFails(k, SYNTAX) /\ ios[k].errors[1].detail = PERIOD
           ELSE IoFails(k, NO_IDENTIFIER)

\* get_io returned an output without a pin, an input with its pin, and failed for a
\* period that no name follows
C12_Witness ==
    /\ \E k \in 1..Len(ios) :
          ios[k].io = OUTPUT /\ ios[k].pair.io_id # NoneId /\ ios[k].pair.io_port = NoneId
    /\ \E k \in 1..Len(ios) :
          ios[k].io = INPUT /\ ios[k].pair.io_port \in {"DATA", "CLK", "SET", "CLEAR"}
    /\ \E k \in 1..Len(ios) : IoFails(k, NO_IDENTIFIER)

\* the connection item "x -> x.1;" stands at position p, x a declared SWITCH, and
\* connect has read its input
SwitchToItself(p) ==
    /\ p + 5 <= Len(tokens)
    /\ tokens[p].type = NAMES /\ tokens[p + 1].type = AR
    /\ tokens[p + 2].type = NAMES /\ tokens[p + 2].id = tokens[p].id
    /\ tokens[p + 3].type = PE /\ tokens[p + 4].type = NUMBER
    /\ tokens[p + 5].type = SCL
    /\ \E k \in 1..Len(ios) :
          /\ ios[k].io = INPUT /\ ios[k].from = p + 2
          /\ ios[k].device.device_kind = SWITCH

\* an error error_type is recorded with the line and the column of the symbol at p
ErrorAt(error_type, p) ==
    \E k \in 1..Len(error_messages) :
        /\ error_messages[k].error_type = error_type
        /\ error_messages[k].linenum = tokens[p].linenum
        /\ error_messages[k].colnum = tokens[p].colnum

InputWithoutPin(k) ==
    /\ items[k].list = CONNECTION_LIST
    /\ items[k].from + 3 <= Len(tokens)
    /\ tokens[items[k].from].type = NAMES /\ tokens[items[k].from + 1].type = AR
    /\ tokens[items[k].from + 2].type = NAMES /\ tokens[items[k].from + 3].type = SCL

\* C14 as stated: a connection item "name -> name ;" records an error in
\* syntax-only mode (connect_syntax, check_io) as it does in build mode (connect,
\* get_io): an input always requires its pin
C14_InputRequiresPin ==
    \A k \in 1..Len(items) : InputWithoutPin(k) => items[k].errors >= 1

\* what the code does: in build mode the item records an error, in syntax-only
\* mode it records none and is read up to its semicolon
C14_SyntaxPassAcceptsNoPin ==
    \A k \in 1..Len(items) :
        InputWithoutPin(k) =>
            IF items[k].semantic_checks THEN items[k].errors = 1
            ELSE items[k].errors = 0 /\ items[k].to = items[k].from + 4

\* the k-th call into the collaborators is devices.make_device; a property symbol
\* (a number, or ON or OFF) stands between the name and the call
IsMakeDevice(k) == calls[k].op = "make_device"
PropertyGiven(k) == tokens[calls[k].at - 1].type \in {PROPERTY, NUMBER}

\* C15 as stated: a device item that gives a property (a number, or ON or OFF) to
\* a kind of device that accepts none (DTYPE, XOR) is reported as an error and
\* creates no device; the property handed to devices.make_device is None only
\* when the item holds no property symbol
C15_PropertyReachesMakeDevice ==
    \A k \in 1..Len(calls) :
        IsMakeDevice(k) =>
            /\ (PropertyGiven(k) /\ calls[k].args[2] \in {D_TYPE, XOR})
                   => calls[k].res # devices_NO_ERROR
            /\ calls[k].property = NoProperty => ~PropertyGiven(k)

\* what the code does: the property handed over is None for ON and OFF given to
\* any kind but SWITCH, and a DTYPE or XOR given ON or OFF is made without an error
C15_KeywordPropertyIsDropped ==
    \A k \in 1..Len(calls) :
        IsMakeDevice(k) =>
            /\ (calls[k].property = NoProperty /\ PropertyGiven(k))
                   <=> (/\ tokens[calls[k].at - 1].type = PROPERTY
                        /\ calls[k].args[2] # SWITCH)
            /\ (PropertyGiven(k) /\ calls[k].args[2] \in {D_TYPE, XOR})
                   => (calls[k].res = devices_NO_ERROR
                          <=> tokens[calls[k].at - 1].type = PROPERTY)

\* the device item about to be read names a device that exists already
NamesExistingDevice ==
    /\ pc = "device_items"
    /\ tokens[pos].type = DEVICETYPE
    /\ tokens[pos + 1].type = NAMES
    /\ get_device(devices_list, tokens[pos + 1].id) # NoDevice

\* C16: no two created devices share a name.  A device item whose name resolves
\* to an existing device records exactly one error, NOT_VALID_NAME, at the name,
\* does not call make_device and leaves the devices as they are; any other step
\* records no NOT_VALID_NAME.  check_valid_name(id) is true exactly when no
\* device with that id exists.
C16_NamesAreUnique ==
    [][/\ \A i, j \in 1..Len(devices_list') :
             devices_list'[i].device_id = devices_list'[j].device_id => i = j
       /\ \A p \in 1..Len(tokens) :
             check_valid_name(State, tokens[p].id)
                 <=> \A i \in 1..Len(devices_list) :
                         devices_list[i].device_id # tokens[p].id
       /\ IF NamesExistingDevice
          THEN /\ devices_list' = devices_list
               /\ calls' = calls
               /\ error_count' = error_count + 1
               /\ Len(recoveries') = Len(recoveries) + 1
               /\ recoveries'[Len(recoveries')].error_type = NOT_VALID_NAME
               /\ recoveries'[Len(recoveries')].from = pos + 1
          ELSE \A k \in Len(recoveries) + 1..Len(recoveries') :
                   recoveries'[k].error_type # NOT_VALID_NAME]_vars

\* a device item named a device that had been made: the error is recorded at the
\* name, the device is still there, and it was made only once
C16_Witness ==
    \E k \in 1..Len(recoveries) :
        /\ recoveries[k].error_type = NOT_VALID_NAME
        /\ get_device(devices_list, tokens[recoveries[k].from].id) # NoDevice
        /\ \E c \in 1..Len(calls) :
              /\ calls[c].op = "make_device"
              /\ calls[c].args[1] = tokens[recoveries[k].from].id
              /\ calls[c].at < recoveries[k].from

\* the words of the language that are no names
ReservedWords == keywords_list \cup device_keywords \cup initial_states

\* the device item about to be read has no name where its name should be
NamesNoDevice ==
    /\ pc = "device_items"
    /\ tokens[pos].type = DEVICETYPE
    /\ tokens[pos + 1].type # NAMES

\* C17: a device item whose name position holds a reserved word (a list keyword,
\* a device type, ON or OFF) or any other symbol that is no name records
\* BAD_NAME, at that symbol, and does not call make_device; any other step records
\* no BAD_NAME.  No device is ever made whose identifier is a reserved word.
C17_ReservedWordIsNoName ==
    [][/\ \A i \in 1..Len(devices_list') :
             devices_list'[i].device_id \notin ReservedWords
       /\ \A c \in 1..Len(calls') :
             calls'[c].op = "make_device" => calls'[c].args[1] \notin ReservedWords
       /\ IF NamesNoDevice
          THEN /\ devices_list' = devices_list
               /\ calls' = calls
               /\ error_count' = error_count + 1
               /\ Len(recoveries') = Len(recoveries) + 1
               /\ recoveries'[Len(recoveries')].error_type = BAD_NAME
               /\ recoveries'[Len(recoveries')].from = pos + 1
          ELSE \A k \in Len(recoveries) + 1..Len(recoveries') :
                   recoveries'[k].error_type # BAD_NAME]_vars

\* a device item had a list keyword for a name: BAD_NAME is recorded at the keyword,
\* and make_device was not called for the item
C17_Witness ==
    \E k \in 1..Len(recoveries) :
        /\ recoveries[k].error_type = BAD_NAME
        /\ tokens[recoveries[k].from].id \in ReservedWords
        /\ tokens[recoveries[k].from - 1].type = DEVICETYPE
        /\ \A c \in 1..Len(calls) : calls[c].at <= recoveries[k].from - 1
                                        \/ calls[c].at > recoveries[k].resumed

\* the symbol that was current when the k-th error was detected
Detected(k) ==
    tokens[IF recoveries[k].from < Len(tokens) THEN recoveries[k].from ELSE Len(tokens)]

\* C18: every call of Parser.error appends exactly one entry to the report, whose
\* line and column are those of the symbol current when the error was detected,
\* not of the symbol the recovery landed on; the entries stand in the order the
\* errors were detected, and none is ever removed or changed.
C18_ReportKeepsDetectionPlace ==
    [][/\ Len(error_messages') = error_count'
       /\ Len(error_messages') = Len(recoveries')
       /\ Len(error_messages') >= Len(error_messages)
       /\ SubSeq(error_messages', 1, Len(error_messages)) = error_messages
       /\ \A k \in 1..Len(error_messages') :
             /\ error_messages'[k].error_type = recoveries'[k].error_type
             /\ error_messages'[k].linenum = Detected(k)'.linenum
             /\ error_messages'[k].colnum = Detected(k)'.colnum
             /\ k > 1 => recoveries'[k - 1].from <= recoveries'[k].from]_vars

\* two errors are in the report, the first recorded in the column where it was
\* detected although its recovery landed on a later symbol
C18_Witness ==
    /\ Len(error_messages) >= 2
    /\ recoveries[1].landed > recoveries[1].from
    /\ error_messages[1].colnum = tokens[recoveries[1].from].colnum
    /\ error_messages[1].colnum # tokens[recoveries[1].landed].colnum
    /\ recoveries[2].from > recoveries[1].landed

---------------------------------------------------------------------------
(* Properties of the scanner.                                              *)

\* C19: EOF is absorbing.  Once get_symbol has returned EOF, every later call
\* returns the same EOF symbol and leaves the scanner as it was: nothing is read
\* from the file, and the position, the line and the column do not change.
C19_EofIsAbsorbing ==
    \A k \in EofCalls :
        \A j \in k + 1..Len(returned) :
            /\ IsEof(returned[j].symbol)
            /\ returned[j].symbol = returned[k].symbol
            /\ returned[j].after = returned[j].before
            /\ returned[j].after.current_position = returned[k].after.current_position
            /\ returned[j].after.line_counter = returned[k].after.line_counter
            /\ returned[j].after.col_counter = returned[k].after.col_counter

\* get_symbol returned a name, then EOF, and was called MaxEofCalls times more on
\* a text that ends in white space
C19_Witness ==
    /\ Len(defi_file) = MaxLen
    /\ defi_file[Len(defi_file)] = " "
    /\ Len(returned) = 2 + MaxEofCalls
    /\ returned[1].symbol.type = NAMES
    /\ IsEof(returned[2].symbol)
    /\ returned[2].after.current_position > returned[2].before.current_position

\* the scanner when the k-th call of get_symbol has skipped white space and
\* comments, and the place in the text of the character its symbol begins with: 0
\* when no character is left
Begin(k) ==
    IF returned[k].before.current_char = "" THEN returned[k].before
    ELSE skip_blanks(defi_file, returned[k].before)
BeginsAt(k) == IF Begin(k).current_char = "" THEN 0 ELSE Begin(k).current_position

\* the characters i to j of the text as one string
RECURSIVE Text(_, _)
Text(i, j) == IF i > j THEN "" ELSE defi_file[i] \o Text(i + 1, j)

\* a character that continues a word; the last character of the run that begins at i
IsRunChar(c) == isalnum(c) \/ c = "_"
RECURSIVE RunEnd(_)
RunEnd(i) ==
    IF i < Len(defi_file) /\ IsRunChar(defi_file[i + 1]) THEN RunEnd(i + 1) ELSE i

\* a maximal run begins at i: a letter that continues no run begun by an earlier letter
RunBeginsAt(i) ==
    /\ isalpha(defi_file[i])
    /\ ~\E h \in 1..i - 1 :
           isalpha(defi_file[h]) /\ \A m \in h..i - 1 : IsRunChar(defi_file[m])

\* the kind of a word, by the lists of reserved words
Kind(text) ==
    IF text \in {"DEVICE_LIST", "CONNECTION_LIST", "MONITOR_LIST", "END"} THEN KEYWORDS
    ELSE IF text \in {"AND", "NAND", "OR", "NOR", "XOR", "DTYPE", "CLOCK",
                      "SWITCH", "SIGGEN"} THEN DEVICETYPE
    ELSE IF text \in {"OFF", "ON"} THEN PROPERTY
    ELSE NAMES

\* the kind of the symbol of a punctuation character
Punctuation(c) == IF c = ":" THEN CL ELSE IF c = ";" THEN SCL ELSE PE

\* the k-th symbol returned is the whole run that begins at i, of the kind of its text
IsRunSymbol(k, i) ==
    /\ BeginsAt(k) = i
    /\ returned[k].symbol.id = Text(i, RunEnd(i))
    /\ returned[k].symbol.type = Kind(returned[k].symbol.id)
    /\ returned[k].after.current_position = RunEnd(i) + 1

\* the k-th symbol returned is the punctuation character at i
IsPunctuationSymbol(k, i) ==
    /\ BeginsAt(k) = i
    /\ returned[k].symbol.id = defi_file[i]
    /\ returned[k].symbol.type = Punctuation(defi_file[i])
    /\ returned[k].after.current_position = i + 1

\* the text was scanned to its end
ScannedToEof == EofCalls # {}

\* the text holds no comment: no '/' is followed by '/' or '*'
NoComment ==
    \A h \in 1..Len(defi_file) - 1 :
        ~(defi_file[h] = "/" /\ defi_file[h + 1] \in {"/", "*"})

\* the character at i does not follow a '-'
NotAfterMinus(i) == i > 1 => defi_file[i - 1] # "-"

\* C20 as stated, for the texts without comments and leaving aside what follows
\* a '-': for every maximal run of characters that starts with a letter and
\* continues with letters, digits or '_', get_symbol returns one symbol, of the
\* kind of its text: KEYWORDS, DEVICETYPE or PROPERTY exactly for the words of
\* the three lists, NAMES otherwise; every ':', ';' and '.' is returned as the
\* symbol of its kind
C20_EveryRunIsOneSymbol ==
    (ScannedToEof /\ NoComment) =>
        \A i \in 1..Len(defi_file) :
            /\ (RunBeginsAt(i) /\ NotAfterMinus(i))
                   => \E k \in 1..Len(returned) : IsRunSymbol(k, i)
            /\ (defi_file[i] \in {":", ";", "."} /\ NotAfterMinus(i))
                   => \E k \in 1..Len(returned) : IsPunctuationSymbol(k, i)

\* no '/' stands before the character at i, and no '-' right before it
Plain(i) ==
    /\ \A h \in 1..i - 1 : defi_file[h] # "/"
    /\ i > 1 => defi_file[i - 1] # "-"

\* what the code does: where get_symbol begins a symbol at a letter, it returns the
\* whole run of letters, digits and '_' from there as one symbol, of the kind of
\* its text by the three lists of reserved words, NAMES otherwise; where it
\* begins at ':', ';' or '.', it returns the symbol of that kind.  It begins a
\* symbol at every maximal run and at every ':', ';' and '.' that has no '/'
\* before it and no '-' right before it.  Where it begins at a '-' that no '>'
\* follows, the character after the '-' is read as well and belongs to no symbol.
C20_ScannedRunIsOneSymbol ==
    /\ \A k \in 1..Len(returned) :
          BeginsAt(k) \in 1..Len(defi_file) =>
              /\ isalpha(defi_file[BeginsAt(k)]) => IsRunSymbol(k, BeginsAt(k))
              /\ defi_file[BeginsAt(k)] \in {":", ";", "."}
                     => IsPunctuationSymbol(k, BeginsAt(k))
              /\ (/\ defi_file[BeginsAt(k)] = "-"
                  /\ BeginsAt(k) < Len(defi_file)
                  /\ defi_file[BeginsAt(k) + 1] # ">")
                     => /\ returned[k].symbol.type = NoneType
                        /\ returned[k].symbol.id = NoneId
                        /\ returned[k].after.current_position = BeginsAt(k) + 2
    /\ ScannedToEof =>
          \A i \in 1..Len(defi_file) :
              /\ (RunBeginsAt(i) /\ Plain(i))
                     => \E k \in 1..Len(returned) : IsRunSymbol(k, i)
              /\ (defi_file[i] \in {":", ";", "."} /\ Plain(i))
                     => \E k \in 1..Len(returned) : IsPunctuationSymbol(k, i)

\* the text "END;" was scanned: the keyword, the semicolon, EOF
C20_KeywordScanned ==
    /\ defi_file = <<"E", "N", "D", ";">>
    /\ Len(returned) = 3
    /\ returned[1].symbol.type = KEYWORDS /\ returned[1].symbol.id = "END"
    /\ returned[2].symbol.type = SCL
    /\ IsEof(returned[3].symbol)
    /\ IsRunSymbol(1, 1) /\ IsPunctuationSymbol(2, 4)

----------------------------------------------------------------------------
(* The table of names: strings are given the ids 0, 1, 2, ... in the order  *)
(* they are first looked up, and an id resolves back to its string          *)

\* the table after Scanner.__init__: lines 82-97
names_init ==
    <<"", ":", ";", "->", ".", "OFF", "ON",
      "DEVICE_LIST", "CONNECTION_LIST", "MONITOR_LIST", "END",
      "AND", "NAND", "OR", "NOR", "XOR", "DTYPE", "CLOCK", "SWITCH", "SIGGEN">>

\* Names.query(name_string): the id of a string of the table
names_query(names, name_string) ==
    (CHOOSE n \in 1..Len(names) : names[n] = name_string) - 1

\* Names.lookup([name_string]): the table, with the string added if it is new
names_lookup(names, name_string) ==
    IF \E n \in 1..Len(names) : names[n] = name_string THEN names
    ELSE Append(names, name_string)

\* Names.get_name_string(name_id)
names_get_name_string(names, name_id) == names[name_id + 1]

\* the table after the first k calls of get_symbol: every id the scanner gave
\* a symbol was looked up
RECURSIVE names_after(_)
names_after(k) ==
    IF k = 0 THEN names_init
    ELSE IF returned[k].symbol.id = NoneId THEN names_after(k - 1)
    ELSE names_lookup(names_after(k - 1), returned[k].symbol.id)

----------------------------------------------------------------------------
(* C21: numbers                                                             *)

\* the last character of the run of digits that begins at i
RECURSIVE DigitRunEnd(_)
DigitRunEnd(i) ==
    IF i < Len(defi_file) /\ isdigit(defi_file[i + 1]) THEN DigitRunEnd(i + 1) ELSE i

\* a maximal run of digits begins at i: a digit that follows no digit and
\* stands in no word
DigitRunBeginsAt(i) ==
    /\ isdigit(defi_file[i])
    /\ i > 1 => ~isdigit(defi_file[i - 1])
    /\ ~\E h \in 1..i - 1 :
           isalpha(defi_file[h]) /\ \A m \in h..i - 1 : IsRunChar(defi_file[m])

\* the number the digits i to j of the text write in base ten
RECURSIVE Value(_, _)
Value(i, j) ==
    IF i > j THEN 0
    ELSE 10 * Value(i, j - 1) + (CHOOSE d \in 0..9 : ToString(d) = defi_file[j])

\* the k-th symbol returned is the run of digits that begins at i: a NUMBER
\* whose id resolves through the table of names to the digits of the text, that
\* get_property returns as they are for a SIGGEN and as their value otherwise
IsNumberSymbol(k, i) ==
    /\ BeginsAt(k) = i
    /\ returned[k].symbol.type = NUMBER
    /\ returned[k].symbol.id = Text(i, DigitRunEnd(i))
    /\ names_get_name_string(names_after(k),
                             names_query(names_after(k), returned[k].symbol.id))
           = Text(i, DigitRunEnd(i))
    /\ returned[k].after.current_position = DigitRunEnd(i) + 1
    /\ returned[k].property[SIGGEN] = StrProperty(Text(i, DigitRunEnd(i)))
    /\ \A type \in device_keywords \ {SIGGEN} :
           returned[k].property[type] = IntProperty(Value(i, DigitRunEnd(i)))

\* C21 as stated, for the texts without comments and leaving aside what follows
\* a '-': every maximal run of digits is returned as one NUMBER symbol whose id
\* resolves through the table of names to exactly the digits of the text,
\* leading zeros included; get_property returns that string for a SIGGEN and
\* its value for every other kind of device
C21_EveryDigitRunIsOneNumber ==
    (ScannedToEof /\ NoComment) =>
        \A i \in 1..Len(defi_file) :
            (DigitRunBeginsAt(i) /\ NotAfterMinus(i))
                => \E k \in 1..Len(returned) : IsNumberSymbol(k, i)

\* what the code does: where get_symbol begins a symbol at a digit, it returns
\* the whole run of digits from there as one NUMBER symbol that resolves to the
\* digits of the text and that get_property returns as stated; where no '/'
\* stands before a maximal run of digits and no '-' right before it, the run
\* is returned so
C21_ScannedDigitRunIsOneNumber ==
    /\ \A k \in 1..Len(returned) :
          (BeginsAt(k) \in 1..Len(defi_file) /\ isdigit(defi_file[BeginsAt(k)]))
              => IsNumberSymbol(k, BeginsAt(k))
    /\ ScannedToEof =>
          \A i \in 1..Len(defi_file) :
              (DigitRunBeginsAt(i) /\ Plain(i))
                  => \E k \in 1..Len(returned) : IsNumberSymbol(k, i)

\* the number 010 was scanned: leading zero kept, value ten
C21_LeadingZeroScanned ==
    /\ defi_file = <<"0", "1", "0">>
    /\ Len(returned) = 2
    /\ IsNumberSymbol(1, 1)
    /\ returned[1].property[SIGGEN] = StrProperty("010")
    /\ returned[1].property[AND] = IntProperty(10)

----------------------------------------------------------------------------
(* C30: get_property                                                        *)

\* the text of the k-th symbol returned: from its first character to the
\* character before the one the scanner was left at
SymbolText(k) == Text(BeginsAt(k), returned[k].after.current_position - 1)

\* the value the claim gives the property of the k-th symbol for a kind of device
PropertyOf(k, type) ==
    IF returned[k].symbol.type = PROPERTY /\ type = SWITCH
    THEN (IF SymbolText(k) = "OFF" THEN LOW ELSE HIGH)
    ELSE IF returned[k].symbol.type = NUMBER
    THEN (IF type = SIGGEN THEN StrProperty(SymbolText(k))
          ELSE IntProperty(Value(BeginsAt(k), returned[k].after.current_position - 1)))
    ELSE NoProperty

\* C30: for every symbol and every kind of device, get_property returns LOW for
\* OFF and HIGH for ON when the device is a SWITCH, the integer value of a
\* NUMBER (its string of digits for a SIGGEN), and None for every other symbol,
\* ON and OFF given to a device that is no SWITCH included; the symbol it was
\* called with is still the current one, the scanner being where the call of
\* get_symbol that returned it left it
C30_GetPropertyValue ==
    \A k \in 1..Len(returned) :
        /\ \A type \in device_keywords :
               returned[k].property[type] = PropertyOf(k, type)
        /\ returned[k].after = scanner_get_symbol(defi_file, returned[k].before).sc
        /\ k < Len(returned) => returned[k + 1].before = returned[k].after

\* ON was scanned: HIGH for a SWITCH, None for an AND gate and for a SIGGEN
C30_Witness ==
    /\ defi_file = <<"O", "N">>
    /\ Len(returned) = 2
    /\ returned[1].symbol.type = PROPERTY
    /\ returned[1].property[SWITCH] = HIGH
    /\ returned[1].property[AND] = NoProperty
    /\ returned[1].property[SIGGEN] = NoProperty

----------------------------------------------------------------------------
(* C22: the arrow and the characters that start no symbol of the language   *)

\* the character at i starts no symbol of the language: it is no letter, no
\* digit, no white space, no ':', ';' or '.', it stands in no word, and it is
\* no '-' that a '>' follows
StartsNoSymbol(i) ==
    /\ ~isalnum(defi_file[i]) /\ ~isspace(defi_file[i])
    /\ defi_file[i] \notin {":", ";", "."}
    /\ ~\E h \in 1..i - 1 :
           isalpha(defi_file[h]) /\ \A m \in h..i - 1 : IsRunChar(defi_file[m])
    /\ ~(defi_file[i] = "-" /\ i < Len(defi_file) /\ defi_file[i + 1] = ">")

\* the k-th symbol returned is the arrow that begins at i
IsArrowSymbol(k, i) ==
    /\ BeginsAt(k) = i
    /\ returned[k].symbol.type = AR /\ returned[k].symbol.id = ARROW
    /\ returned[k].after.current_position = i + 2

\* the k-th symbol returned begins at i and has no type, without being EOF
IsUntypedSymbol(k, i) ==
    /\ BeginsAt(k) = i
    /\ returned[k].symbol.type = NoneType
    /\ ~IsEof(returned[k].symbol)

\* C22 as stated, for the texts without comments and leaving aside what follows
\* a '-': every '-' that a '>' follows is returned as the Arrow symbol, and every
\* other '-' and every character that starts no symbol of the language is
\* returned as a symbol without a type
C22_AnomalyIsASymbol ==
    (ScannedToEof /\ NoComment) =>
        \A i \in 1..Len(defi_file) :
            NotAfterMinus(i) =>
                /\ (/\ defi_file[i] = "-" /\ i < Len(defi_file)
                    /\ defi_file[i + 1] = ">")
                       => \E k \in 1..Len(returned) : IsArrowSymbol(k, i)
                /\ StartsNoSymbol(i)
                       => \E k \in 1..Len(returned) : IsUntypedSymbol(k, i)

\* what the scanner does: where get_symbol begins a symbol at a '-', it returns
\* the Arrow if a '>' follows and a symbol without type or id otherwise; where
\* it begins a symbol at another character that starts no symbol of the
\* language, it returns a symbol without a type whose id is that character;
\* where no '/' stands before such a character and no '-' right before it, it
\* is returned so
C22_ScannedAnomalyIsASymbol ==
    /\ \A k \in 1..Len(returned) :
          BeginsAt(k) \in 1..Len(defi_file) =>
              /\ (/\ defi_file[BeginsAt(k)] = "-"
                  /\ BeginsAt(k) < Len(defi_file)
                  /\ defi_file[BeginsAt(k) + 1] = ">")
                     => IsArrowSymbol(k, BeginsAt(k))
              /\ (/\ defi_file[BeginsAt(k)] = "-"
                  /\ StartsNoSymbol(BeginsAt(k)))
                     => /\ IsUntypedSymbol(k, BeginsAt(k))
                        /\ returned[k].symbol.id = NoneId
              /\ (/\ ~isalnum(defi_file[BeginsAt(k)])
                  /\ defi_file[BeginsAt(k)] \notin {":", ";", ".", "-"})
                     => /\ IsUntypedSymbol(k, BeginsAt(k))
                        /\ returned[k].symbol.id = defi_file[BeginsAt(k)]
    /\ ScannedToEof =>
          \A i \in 1..Len(defi_file) :
              (StartsNoSymbol(i) /\ Plain(i) /\ defi_file[i] # "/")
                  => \E k \in 1..Len(returned) : IsUntypedSymbol(k, i)

\* what the parser does: a file that holds a symbol without a type before its
\* EOF is parsed with at least one error, and parse_network returns False
C22_UntypedSymbolIsAnError ==
    (Done /\ \E i \in 1..Len(tokens) :
                 tokens[i].type = NoneType /\ tokens[i].id # EOF)
        => /\ error_count >= 1 /\ Len(error_messages) >= 1
           /\ rets.parse_network = PyFalse

----------------------------------------------------------------------------
(* C23: block comments                                                      *)

\* the place of the '/' of the first "*/" at or after i, the length of the text
\* if there is none
RECURSIVE CloseOf(_, _)
CloseOf(text, i) ==
    IF i >= Len(text) THEN Len(text)
    ELSE IF text[i] = "*" /\ text[i + 1] = "/" THEN i + 1
    ELSE CloseOf(text, i + 1)

\* the text from i on with every "/*" up to the first "*/" that follows it
\* replaced by one space
RECURSIVE ElideFrom(_, _)
ElideFrom(text, i) ==
    IF i > Len(text) THEN <<>>
    ELSE IF text[i] = "/" /\ i < Len(text) /\ text[i + 1] = "*"
    THEN <<" ">> \o ElideFrom(text, CloseOf(text, i + 2) + 1)
    ELSE <<text[i]>> \o ElideFrom(text, i + 1)
Elide(text) == ElideFrom(text, 1)

\* the types and ids of a sequence of symbols
TypesAndIds(symbols) ==
    [k \in 1..Len(symbols) |-> <<symbols[k].type, symbols[k].id>>]

\* the symbols returned up to the first EOF
ReturnedToEof ==
    [k \in 1..CHOOSE n \in EofCalls : \A m \in EofCalls : n <= m |-> returned[k].symbol]

\* the text holds a block comment, outside its block comments no '/', and no
\* '-' right before a '/'
OnlyBlockComments ==
    /\ Elide(defi_file) # defi_file
    /\ \A i \in 1..Len(defi_file) : defi_file[i] = "/" => NotAfterMinus(i)
    /\ \A i \in 1..Len(Elide(defi_file)) : Elide(defi_file)[i] # "/"

\* C23 as stated, for the texts with no '/' outside their block comments: the
\* symbols get_symbol returns up to EOF are, by type and id, the symbols of the
\* text with every "/*" up to the first "*/" that follows replaced by a space,
\* whatever stands before that "*/"
C23_BlockCommentEndsAtFirstClose ==
    (ScannedToEof /\ OnlyBlockComments) =>
        TypesAndIds(ReturnedToEof) = TypesAndIds(ScanFile(Elide(defi_file)))

\* from i on, no '*' stands in a block comment between the "/*" and the "*/"
\* that closes it
RECURSIVE StarFreeFrom(_, _)
StarFreeFrom(text, i) ==
    IF i > Len(text) THEN TRUE
    ELSE IF text[i] = "/" /\ i < Len(text) /\ text[i + 1] = "*"
    THEN /\ \A j \in i + 2..CloseOf(text, i + 2) - 2 : text[j] # "*"
         /\ StarFreeFrom(text, CloseOf(text, i + 2) + 1)
    ELSE StarFreeFrom(text, i + 1)

\* what the scanner does: the same holds for the texts whose block comments hold
\* no '*' before the "*/" that closes them
C23_BlockCommentWithoutStars ==
    (ScannedToEof /\ OnlyBlockComments /\ StarFreeFrom(defi_file, 1)) =>
        TypesAndIds(ReturnedToEof) = TypesAndIds(ScanFile(Elide(defi_file)))

\* a block comment between two names was skipped
C23_CommentSkipped ==
    /\ defi_file = <<"x", "/", "*", "x", "*", "/", "x">>
    /\ Len(returned) = 3
    /\ TypesAndIds(ReturnedToEof) = <<<<NAMES, "x">>, <<NAMES, "x">>, <<NoneType, EOF>>>>

----------------------------------------------------------------------------
(* C24: line comments                                                       *)

\* the text from i on with every character from a "//" up to the end of its
\* line replaced by a space; the end of the line is kept
RECURSIVE BlankFrom(_, _, _)
BlankFrom(text, i, in_comment) ==
    IF i > Len(text) THEN <<>>
    ELSE IF text[i] = "\n" THEN <<"\n">> \o BlankFrom(text, i + 1, FALSE)
    ELSE IF in_comment THEN <<" ">> \o BlankFrom(text, i + 1, TRUE)
    ELSE IF text[i] = "/" /\ i < Len(text) /\ text[i + 1] = "/"
    THEN <<" ">> \o BlankFrom(text, i + 1, TRUE)
    ELSE <<text[i]>> \o BlankFrom(text, i + 1, FALSE)
Blank(text) == BlankFrom(text, 1, FALSE)

\* the text holds a line comment, outside its line comments no '/', and no '-'
\* right before a '/'
OnlyLineComments ==
    /\ Blank(defi_file) # defi_file
    /\ \A i \in 1..Len(defi_file) : defi_file[i] = "/" => NotAfterMinus(i)
    /\ \A i \in 1..Len(defi_file) : Blank(defi_file)[i] # "/"

\* C24: for the texts with no '/' outside their line comments, the symbols
\* get_symbol returns up to EOF are, with their lines and columns, the symbols
\* of the text with every "//" comment blanked up to the end of its line: no
\* symbol comes from the text of a comment, the symbols after the end of the
\* line are returned unchanged, and a comment on a last line that no newline
\* ends is followed by EOF
C24_LineCommentEndsAtNewline ==
    (ScannedToEof /\ OnlyLineComments) =>
        ReturnedToEof = ScanFile(Blank(defi_file))

\* a comment on the first line and one on the last line, which no newline ends,
\* were skipped: the name between them and EOF were returned
C24_Witness ==
    /\ defi_file = <<"/", "/", "x", "\n", "x", "/", "/">>
    /\ Len(returned) = 2
    /\ returned[1].symbol = Symbol(NAMES, "x", 2, 1)
    /\ IsEof(returned[2].symbol)

----------------------------------------------------------------------------
(* C25: comments next to comments and next to symbols                       *)

\* the text from i on with the characters of its comments replaced by spaces,
\* the ends of lines kept; mode is 0 outside a comment, 1 in a "//" comment and
\* 2 in a block comment
RECURSIVE StripFrom(_, _, _)
StripFrom(text, i, mode) ==
    IF i > Len(text) THEN <<>>
    ELSE IF mode = 1
    THEN (IF text[i] = "\n" THEN <<"\n">> \o StripFrom(text, i + 1, 0)
          ELSE <<" ">> \o StripFrom(text, i + 1, 1))
    ELSE IF mode = 2
    THEN (IF text[i] = "*" /\ i < Len(text) /\ text[i + 1] = "/"
          THEN <<" ", " ">> \o StripFrom(text, i + 2, 0)
          ELSE <<IF text[i] = "\n" THEN "\n" ELSE " ">> \o StripFrom(text, i + 1, 2))
    ELSE IF text[i] = "/" /\ i < Len(text) /\ text[i + 1] \in {"/", "*"}
    THEN <<" ", " ">> \o StripFrom(text, i + 2, IF text[i + 1] = "/" THEN 1 ELSE 2)
    ELSE <<text[i]>> \o StripFrom(text, i + 1, 0)
Strip(text) == StripFrom(text, 1, 0)

\* from i on, no block comment holds a '*' before the "*/" that closes it
RECURSIVE StarFreeBlocks(_, _, _)
StarFreeBlocks(text, i, mode) ==
    IF i > Len(text) THEN TRUE
    ELSE IF mode = 1
    THEN StarFreeBlocks(text, i + 1, IF text[i] = "\n" THEN 0 ELSE 1)
    ELSE IF mode = 2
    THEN (IF text[i] = "*" /\ i < Len(text) /\ text[i + 1] = "/"
          THEN StarFreeBlocks(text, i + 2, 0)
          ELSE text[i] # "*" /\ StarFreeBlocks(text, i + 1, 2))
    ELSE IF text[i] = "/" /\ i < Len(text) /\ text[i + 1] \in {"/", "*"}
    THEN StarFreeBlocks(text, i + 2, IF text[i + 1] = "/" THEN 1 ELSE 2)
    ELSE StarFreeBlocks(text, i + 1, 0)

\* the text holds comments, outside its comments no '/', and no '-' right
\* before a '/'
OnlyComments ==
    /\ Strip(defi_file) # defi_file
    /\ \A i \in 1..Len(defi_file) : defi_file[i] = "/" => NotAfterMinus(i)
    /\ \A i \in 1..Len(defi_file) : Strip(defi_file)[i] # "/"

\* C25 as stated, for the texts with no '/' outside their comments: the symbols
\* get_symbol returns up to EOF are, by type and id, the symbols of the text
\* without its comments, however many comments of either kind stand next to
\* each other or next to a symbol; each call skips the whole run of comments
\* before the symbol it returns
C25_CommentsAreElided ==
    (ScannedToEof /\ OnlyComments) =>
        TypesAndIds(ReturnedToEof) = TypesAndIds(ScanFile(Strip(defi_file)))

\* what the scanner does: the same holds for the texts whose block comments
\* hold no '*' before the "*/" that closes them
C25_StarFreeCommentsAreElided ==
    (ScannedToEof /\ OnlyComments /\ StarFreeBlocks(defi_file, 1, 0)) =>
        TypesAndIds(ReturnedToEof) = TypesAndIds(ScanFile(Strip(defi_file)))

\* a line comment, a block comment right after it and a name right after that:
\* the first call of get_symbol returned the name
C25_RunSkipped ==
    /\ defi_file = <<"/", "/", "\n", "/", "*", "*", "/", "x">>
    /\ Len(returned) = 1
    /\ returned[1].symbol.type = NAMES /\ returned[1].symbol.id = "x"

----------------------------------------------------------------------------
(* C26: the line and the column of a symbol                                 *)

\* the ends of lines before the character at i
NewlinesBefore(i) == {h \in 1..i - 1 : defi_file[h] = "\n"}

\* the place of the last end of line before the character at i, 0 on the
\* first line
LineStart(i) ==
    IF NewlinesBefore(i) = {} THEN 0
    ELSE CHOOSE h \in NewlinesBefore(i) : \A m \in NewlinesBefore(i) : m <= h

\* C26: every symbol returned that is not EOF has for linenum one more than the
\* number of ends of lines before its first character, and for colnum the
\* place of its first character in its line, counted from one, whatever
\* comments, blank lines or symbols stand before it
C26_LineAndColumn ==
    \A k \in 1..Len(returned) :
        ~IsEof(returned[k].symbol) =>
            /\ BeginsAt(k) \in 1..Len(defi_file)
            /\ returned[k].symbol.linenum = 1 + Cardinality(NewlinesBefore(BeginsAt(k)))
            /\ returned[k].symbol.colnum = BeginsAt(k) - LineStart(BeginsAt(k))

\* a name right after a block comment that spans two lines: line 2, column 3
C26_Witness ==
    /\ defi_file = <<"/", "*", "\n", "*", "/", "x">>
    /\ Len(returned) = 1
    /\ returned[1].symbol = Symbol(NAMES, "x", 2, 3)
    /\ BeginsAt(1) = 6

----------------------------------------------------------------------------
(* C28: termination.  parse_network is one sequential call: a step that can *)
(* be taken is taken, which is weak fairness of the next-state action.      *)

\* the fairness is WF_vars(Next) with ENABLED <<Next>>_vars written out: a step
\* can be taken exactly as long as parse_network has not returned
LiveSpec == Init /\ [][Next]_vars /\ ([]<>Done \/ []<><<Next>>_vars)

\* the types of the errors parse.py reports
ErrorTypes ==
    {SYNTAX_COLON, KEYWORD_ERROR, SYMBOL_TYPE_ERROR, NO_DEVICE, BAD_NAME, NOT_VALID_NAME,
     SYNTAX, END_ERROR, IDENTIFIER_PRESENT, UNCONNECTED_INPUTS, NO_MONITOR,
     NO_IDENTIFIER, NO_EOF,
     NOT_OUTPUT, MONITOR_PRESENT,
     INPUT_TO_INPUT, OUTPUT_TO_OUTPUT, INPUT_CONNECTED, PORT_ABSENT, DEVICE_ABSENT,
     INVALID_QUALIFIER, NO_QUALIFIER, BAD_DEVICE, QUALIFIER_PRESENT, DEVICE_PRESENT}

\* every iteration of an item loop so far read at least one symbol or left the
\* loop by break; every recovery so far went forward only, stopped on a stopping
\* symbol of its error, and read the symbol after it unless it is EOF; the
\* recovery loop ends at EOF at the latest; the scanner returned EOF after
\* finitely many symbols; at the end EOF is the current symbol or the three
\* lists were gone through
Progress ==
    /\ \A n \in 1..Len(items) :
          \/ items[n].to > items[n].from
          \/ items[n].branch = "end_error"
    /\ \A n \in 1..Len(recoveries) :
          recoveries[n].advance_symbol =>
              /\ recoveries[n].from <= recoveries[n].landed
              /\ recoveries[n].landed <= Len(tokens)
              /\ recoveries[n].stop = tokens[recoveries[n].landed].id
              /\ recoveries[n].stop \in stopping_symbol(recoveries[n].error_type)
              /\ \A h \in recoveries[n].from..recoveries[n].landed - 1 :
                     tokens[h].id \notin stopping_symbol(recoveries[n].error_type)
              /\ recoveries[n].resumed =
                     IF recoveries[n].stop = EOF THEN recoveries[n].landed
                     ELSE recoveries[n].landed + 1
    /\ \A error_type \in ErrorTypes : EOF \in stopping_symbol(error_type)
    /\ IsEof(tokens[Len(tokens)]) /\ \A h \in 1..Len(tokens) - 1 : ~IsEof(tokens[h])
    /\ pos <= Len(tokens) + 1
    /\ Done => \/ sym(State).id = EOF
               \/ \A routine \in {"devicelist", "connectionlist", "monitorlist"} :
                      rets[routine] # Pending

\* C28: parse_network terminates on every file: every iteration of the item
\* loops and of the recovery loop reads at least one symbol or leaves the loop,
\* and the parse comes to its end, with EOF for the current symbol or the three
\* lists gone through
C28_ParseTerminates == []Progress /\ <>Done

\* a parse came to its end after a recovery that skipped symbols and after
\* several iterations of the item loops
C28_Witness ==
    /\ Done
    /\ Len(items) >= 3
    /\ \E n \in 1..Len(recoveries) :
          recoveries[n].advance_symbol /\ recoveries[n].landed > recoveries[n].from + 1

----------------------------------------------------------------------------
(* C29: Scanner.print_line.  The specification PrintSpec calls print_line   *)
(* once on a text, for a line and a column of the text; the variable        *)
(* returned records the call and the string it returns, as the sequence of  *)
(* its characters.                                                          *)

\* for line in self.defi_file: a line ends with its "\n"; the last line may have
\* none.  The places where the lines of a file end, and its n-th line
line_ends(file) ==
    {i \in 1..Len(file) : file[i] = "\n" \/ i = Len(file)}
line_end(file, n) ==
    CHOOSE e \in line_ends(file) : Cardinality({x \in line_ends(file) : x < e}) = n - 1
file_line(file, n) ==
    SubSeq(file, IF n = 1 THEN 1 ELSE line_end(file, n - 1) + 1, line_end(file, n))

\* line[a:b] and " " * n of Python
slice(line, a, b) == SubSeq(line, a + 1, b)
spaces(n) == [i \in 1..n |-> " "]

\* lines 221-234: the line, the blanks and the caret
print_string(line, colnum) ==
    IF colnum < 37 \/ Len(line) < 73
    THEN line \o spaces(colnum - 1) \o <<"^">>
    ELSE IF colnum + 37 > Len(line)
    THEN <<".", ".", ".">> \o slice(line, Len(line) - 73, Len(line))
             \o spaces(colnum - Len(line) + 75) \o <<"^">>
    ELSE <<".", ".", ".">> \o slice(line, colnum - 36, colnum + 37)
             \o <<".", ".", ".", "\n">> \o spaces(38) \o <<"^">>

\* Scanner.print_line(linnum, colnum)
print_line(file, linnum, colnum) ==
    IF linnum \in 1..Cardinality(line_ends(file))
    THEN print_string(file_line(file, linnum), colnum)
    ELSE <<"\n", "^">>

MaxLineLen == 76

\* a line of n characters, the character at column i being the last digit of i
TextLine(n) == [i \in 1..n |-> ToString(i % 10)]

\* the texts: a line of at most three or of at least seventy characters, with
\* or without the newline that ends it, alone or after a first line
PrintTexts ==
    {first \o TextLine(n) \o end :
        first \in {<<>>, <<"a", "\n">>},
        n \in (1..3) \cup (70..MaxLineLen),
        end \in {<<>>, <<"\n">>}}

\* the characters of a line without the newline that ends it
Visible(line) ==
    IF line # <<>> /\ line[Len(line)] = "\n" THEN SubSeq(line, 1, Len(line) - 1) ELSE line

PrintStart ==
    /\ defi_file \in PrintTexts
    /\ tokens = Place(<<>>)
    /\ scanner = ScannerInit
    /\ returned = <<>>
    /\ ParserInit
    /\ ControlPanelInit

\* one call of print_line, for a character of the text
PrintLine ==
    /\ returned = <<>>
    /\ \E linnum \in 1..Cardinality(line_ends(defi_file)) :
          \E colnum \in 1..Len(Visible(file_line(defi_file, linnum))) :
              returned' = Append(returned,
                  [linnum |-> linnum, colnum |-> colnum,
                   line |-> file_line(defi_file, linnum),
                   print_string |-> print_line(defi_file, linnum, colnum)])
    /\ UNCHANGED <<tokens, pc, pos, error_count, error_messages, missing_end,
                   reached_eof, devices_list, connections, monitors_dictionary,
                   semantic_checks, success, rets, calls, recoveries, items, ios,
                   defi_file, scanner, gui_vars>>

PrintNext == PrintLine
PrintSpec == PrintStart /\ [][PrintNext]_vars

\* the places of the newlines of a string
NewlinesOf(string) == {i \in 1..Len(string) : string[i] = "\n"}

\* the string is a first line, a newline, and a second line of blanks that ends
\* with '^' under the character c of the first line; the first line is the whole
\* line or, for a line of 73 characters or more and a column from 37 on, begins
\* with "..."
CaretUnder(string, line, colnum) ==
    /\ Cardinality(NewlinesOf(string)) = 1
    /\ \E n \in NewlinesOf(string) :
          /\ string[Len(string)] = "^"
          /\ \A i \in n + 1..Len(string) - 1 : string[i] = " "
          /\ Len(string) - n <= n - 1
          /\ string[Len(string) - n] = line[colnum]
          /\ \/ SubSeq(string, 1, n - 1) = Visible(line)
             \/ /\ Len(line) >= 73 /\ colnum >= 37
                /\ SubSeq(string, 1, 3) = <<".", ".", ".">>
                /\ Len(string) - n >= 4 /\ colnum - (Len(string) - n - 4) >= 1
                /\ SubSeq(string, 4, Len(string) - n)
                       = SubSeq(line, colnum - (Len(string) - n - 4), colnum)

\* C29 as stated: for every line of the text and every column of the line,
\* print_line returns the line, or for a line of 73 characters or more and a
\* column from 37 on a window of it that begins with "...", followed on the next
\* line by a '^' exactly under the character at that column
C29_CaretUnderColumn ==
    \A k \in 1..Len(returned) :
        CaretUnder(returned[k].print_string, returned[k].line, returned[k].colnum)

\* what print_line does: the same holds for the lines that a newline ends,
\* unless the window ends with that newline (column + 37 is the length of the
\* line, newline included)
C29_CaretUnderColumnOfEndedLine ==
    \A k \in 1..Len(returned) :
        (/\ returned[k].line[Len(returned[k].line)] = "\n"
         /\ ~(/\ returned[k].colnum >= 37 /\ Len(returned[k].line) >= 73
              /\ returned[k].colnum + 37 = Len(returned[k].line)))
            => CaretUnder(returned[k].print_string, returned[k].line, returned[k].colnum)

\* print_line was called for column 38 of a line of 76 characters and a newline:
\* the window begins with "..." and the '^' stands under the character
C29_WindowPrinted ==
    /\ Len(returned) = 1
    /\ Len(returned[1].line) = 77 /\ returned[1].colnum = 38
    /\ SubSeq(returned[1].print_string, 1, 3) = <<".", ".", ".">>
    /\ CaretUnder(returned[1].print_string, returned[1].line, returned[1].colnum)

----------------------------------------------------------------------------
(* C27: the Run and Continue buttons (gui.py, class ControlPanel).  The     *)
(* state g of a handler is the record of cycles_completed, signal, traces,  *)
(* the calls made so far into network and monitors, the value ret of        *)
(* run_network and the text of the status bar.  What a call of              *)
(* network.execute_network does is an input: whether it succeeds, and the   *)
(* level it leaves on the monitored output.                                 *)

MaxCycles == 2
MaxClicks == 2

\* self.spin.SetValue(10): the number of cycles the Reset button runs
DefaultCycles == 10

Outcome == [ok : BOOLEAN, signal : {LOW, HIGH}]

\* the state of the control panel when a handler is entered
Panel ==
    [cycles_completed |-> cycles_completed, signal |-> signal, traces |-> traces,
     calls |-> <<>>, ret |-> TRUE, status |-> ""]

\* network.execute_network(): a cycle of the network, with its outcome
execute_network(g, outcome) ==
    [g EXCEPT !.signal = outcome.signal,
              !.calls = Append(@, [op |-> "execute_network", res |-> outcome.ok,
                                   signal |-> outcome.signal])]

\* monitors.record_signals(): the level of the output is appended to its trace
record_signals(g) ==
    [g EXCEPT !.traces = Append(@, g.signal),
              !.calls = Append(@, [op |-> "record_signals", res |-> TRUE,
                                   signal |-> g.signal])]

\* monitors.reset_monitors(): the traces are emptied
reset_monitors(g) ==
    [g EXCEPT !.traces = <<>>,
              !.calls = Append(@, [op |-> "reset_monitors", res |-> TRUE,
                                   signal |-> g.signal])]

\* devices.cold_startup(): the devices are set to their initial levels
cold_startup(g) ==
    [g EXCEPT !.signal = LOW,
              !.calls = Append(@, [op |-> "cold_startup", res |-> TRUE, signal |-> LOW])]

\* a loop body that records the signals after a cycle that failed as well
RECURSIVE network_loop(_, _, _)
cycle_done_recording_failure(e, outcomes, i) ==
    IF outcomes[i].ok
    THEN network_loop(record_signals(e), outcomes, i + 1)
    ELSE [record_signals(e) EXCEPT !.ret = FALSE, !.status = "Error! Network oscillating."]

\* lines 1084-1090 and 1106-1112: after execute_network returned in state e
cycle_done(e, outcomes, i) ==
    IF outcomes[i].ok
    THEN network_loop(record_signals(e), outcomes, i + 1)
    ELSE [e EXCEPT !.ret = FALSE, !.status = "Error! Network oscillating."]

\* lines 1083-1092 and 1105-1112: for _ in range(cycles), from cycle i on
network_loop(g, outcomes, i) ==
    IF i > Len(outcomes) THEN g
    ELSE cycle_done(execute_network(g, outcomes[i]), outcomes, i)

\* ControlPanel.run_network(cycles)
run_network(g, outcomes) ==
    network_loop([g EXCEPT !.cycles_completed = Len(outcomes)], outcomes, 1)

\* ControlPanel.continue_network(cycles)
continue_network(g, outcomes) ==
    network_loop([g EXCEPT !.cycles_completed = @ + Len(outcomes)], outcomes, 1)

\* ControlPanel.on_run_button, lines 966-977: after run_network returned in state r
run_button_done(r, cycles) ==
    IF ~r.ret THEN [r EXCEPT !.status = "Error: Could not run network"]
    ELSE IF cycles = 0
    THEN [reset_monitors(r) EXCEPT !.cycles_completed = 0, !.status = ""]
    ELSE [r EXCEPT !.status = "Simulation run for cycles."]

\* an on_run_button that leaves the traces and the devices as they are
on_run_button_unreset(g, outcomes) ==
    run_button_done(run_network(g, outcomes), Len(outcomes))

\* ControlPanel.on_run_button(event)
on_run_button(g, outcomes) ==
    run_button_done(run_network(cold_startup(reset_monitors(g)), outcomes),
                    Len(outcomes))

\* ControlPanel.on_continue_button(event)
on_continue_button(g, outcomes) ==
    IF g.cycles_completed = 0
    THEN [g EXCEPT !.status = "Error! Nothing to continue. Run first."]
    ELSE [continue_network(g, outcomes) EXCEPT
             !.status = "Simulation continued for more cycles."]

\* ControlPanel.on_reset_button(event).  The check boxes of the monitors and of
\* the switches are as they were at start-up, so the two loops that restore them
\* find nothing to restore; the spin control is set to its default and the Run
\* handler is called with _ for the event
on_reset_button(g, outcomes) ==
    [on_run_button([g EXCEPT !.cycles_completed = 0], outcomes) EXCEPT
        !.status = "Simulation reset."]

\* a handler took the control panel to the state t
Clicked(handler, cycles, t) ==
    /\ cycles_completed' = t.cycles_completed
    /\ signal' = t.signal
    /\ traces' = t.traces
    /\ sim' = Append(sim, [handler |-> handler, cycles |-> cycles, before |-> traces,
                           completed |-> cycles_completed,
                           after |-> t.traces, calls |-> t.calls, ret |-> t.ret,
                           status |-> t.status])
    /\ UNCHANGED <<tokens, pc, pos, error_count, error_messages, missing_end,
                   reached_eof, devices_list, connections, monitors_dictionary,
                   semantic_checks, success, rets, calls, recoveries, items, ios,
                   defi_file, scanner, returned>>

\* a click on the Run button, the spin control holding the number of cycles
OnRunButton ==
    /\ Len(sim) < MaxClicks
    /\ \E cycles \in 0..MaxCycles : \E outcomes \in [1..cycles -> Outcome] :
          Clicked("run", cycles, on_run_button(Panel, outcomes))

\* a click on the Continue button
OnContinueButton ==
    /\ Len(sim) < MaxClicks
    /\ \E cycles \in 0..MaxCycles : \E outcomes \in [1..cycles -> Outcome] :
          Clicked("continue", cycles, on_continue_button(Panel, outcomes))

GuiStart ==
    /\ tokens = Place(<<>>)
    /\ defi_file = <<>>
    /\ scanner = ScannerInit
    /\ returned = <<>>
    /\ ParserInit
    /\ ControlPanelInit

\* what the cycles of a reset may do: they succeed up to a cycle that fails, or
\* all of them succeed; the output changes its level with every cycle
ResetOutcomes ==
    {[i \in 1..DefaultCycles |->
         [ok |-> i # failing, signal |-> IF i % 2 = odd THEN HIGH ELSE LOW]] :
     failing \in 1..DefaultCycles + 1, odd \in 0..1}

\* a click on the Reset button
OnResetButton ==
    /\ Len(sim) < MaxClicks
    /\ \E outcomes \in ResetOutcomes :
          Clicked("reset", DefaultCycles, on_reset_button(Panel, outcomes))

GuiNext == OnRunButton \/ OnContinueButton \/ OnResetButton
GuiSpec == GuiStart /\ [][GuiNext]_vars

\* the calls of execute_network and record_signals among the calls of a handler
CycleCalls(e) ==
    SelectSeq(e.calls, LAMBDA c : c.op \in {"execute_network", "record_signals"})

\* the levels left by the cycles that succeeded, in order
RECURSIVE LevelsOf(_)
LevelsOf(cs) ==
    IF cs = <<>> THEN <<>>
    ELSE (IF Head(cs).op = "execute_network" /\ Head(cs).res
          THEN <<Head(cs).signal>> ELSE <<>>) \o LevelsOf(Tail(cs))

\* the traces when the loop of a handler begins: emptied by Run, kept by Continue
Earlier(e) == IF e.handler = "continue" THEN e.before ELSE <<>>

\* the handler went through its loop: Continue does not before the first Run
Looped(e) == e.handler # "continue" \/ e.completed # 0

\* C27: in every click on Run and on Continue, record_signals is called right
\* after every call of execute_network that succeeded, once, and at no other
\* time; a call that failed is the last call of the loop, nothing is recorded
\* for its cycle, and the levels recorded for the earlier cycles stay as they
\* were: the trace is the earlier trace followed by the levels of the cycles
\* that succeeded
C27_RecordedOncePerCycle ==
    \A n \in 1..Len(sim) :
        LET cs == CycleCalls(sim[n])
            levels == LevelsOf(sim[n].calls)
        IN  /\ \A i \in 1..Len(cs) :
                  /\ (cs[i].op = "execute_network" /\ cs[i].res)
                         => i < Len(cs) /\ cs[i + 1].op = "record_signals"
                  /\ (cs[i].op = "execute_network" /\ ~cs[i].res)
                         => i = Len(cs) /\ ~sim[n].ret
                  /\ cs[i].op = "record_signals"
                         => /\ i > 1
                            /\ cs[i - 1].op = "execute_network"
                            /\ cs[i - 1].res
                            /\ cs[i].signal = cs[i - 1].signal
            /\ Len(levels) <= sim[n].cycles
            /\ Looped(sim[n]) =>
                   /\ sim[n].ret => Len(levels) = sim[n].cycles
                   /\ sim[n].after = Earlier(sim[n]) \o levels
            /\ ~Looped(sim[n]) => sim[n].after = sim[n].before /\ cs = <<>>

\* Continue was clicked after a run: its first cycle succeeded and was recorded,
\* its second cycle failed and left the trace as it was
C27_Witness ==
    \E n \in 2..Len(sim) :
        /\ sim[n].handler = "continue" /\ sim[n].cycles = 2
        /\ sim[n].before # <<>>
        /\ Len(sim[n].calls) = 3
        /\ sim[n].calls[1].res /\ sim[n].calls[2].op = "record_signals"
        /\ ~sim[n].calls[3].res /\ sim[n].calls[3].signal # sim[n].calls[1].signal
        /\ sim[n].after = Append(sim[n].before, sim[n].calls[1].signal)

----------------------------------------------------------------------------
(* C31: Parser.check_keyword, as the three list routines call it.           *)

\* the list keyword the routine about to run checks for
HeaderKeyword ==
    CASE pc = "devicelist" -> DEVICE_LIST
      [] pc = "connectionlist" -> CONNECTION_LIST
      [] OTHER -> MONITOR_LIST

\* a list routine is about to call check_keyword
AtHeader == pc \in {"devicelist", "connectionlist", "monitorlist"} /\ ~reached_eof

\* the routine parse_network calls after the one about to run
AfterRoutine ==
    CASE pc = "devicelist" -> "connectionlist"
      [] pc = "connectionlist" -> "monitorlist"
      [] OTHER -> "return"

\* the first END or EOF at or after symbol p
NextEnd(p) ==
    CHOOSE e \in p..Len(tokens) :
        /\ tokens[e].id \in {END, EOF}
        /\ \A h \in p..e - 1 : tokens[h].id \notin {END, EOF}

\* the symbol read after the recovery that began at symbol p
PastNextEnd(p) == IF tokens[NextEnd(p)].id = EOF THEN NextEnd(p) ELSE NextEnd(p) + 1

\* the keyword and its colon are the current and the next symbol
KeywordAndColon ==
    /\ sym(State).id = HeaderKeyword
    /\ tokens[pos + 1].type = CL

\* check_keyword returned True: the routine goes on to its items or to its END
\* and nothing was recorded
KeywordAccepted ==
    /\ pos' = pos + 2
    /\ error_count' = error_count /\ error_messages' = error_messages
    /\ recoveries' = recoveries
    /\ pc' # AfterRoutine /\ rets' = rets

\* check_keyword returned False after one error of the given type and a
\* recovery from symbol p: the routine returns without reading an item
KeywordRefused(error_type, p) ==
    /\ error_count' = error_count + 1
    /\ Len(error_messages') = Len(error_messages) + 1
    /\ SubSeq(error_messages', 1, Len(error_messages)) = error_messages
    /\ error_messages'[Len(error_messages')].error_type = error_type
    /\ pos' = PastNextEnd(p)
    /\ pc' = AfterRoutine
    /\ ~Truthy(rets'[pc])
    /\ items' = items /\ calls' = calls

\* C31: check_keyword(k) returns True iff the current symbol is the list keyword k
\* and the next one is ':', and then both are consumed; otherwise it records
\* exactly one error, KEYWORD_ERROR for a wrong keyword and SYNTAX_COLON for a
\* missing colon, skips through the next END or to EOF, so that no item of the
\* section is examined, and returns False
C31_CheckKeyword ==
    [][AtHeader =>
          IF KeywordAndColon THEN KeywordAccepted
          ELSE IF sym(State).id # HeaderKeyword
          THEN KeywordRefused(KEYWORD_ERROR, pos)
          ELSE KeywordRefused(SYNTAX_COLON, pos + 1)]_vars

\* a parse in which the keyword of one list was accepted and the keyword of a
\* later one was not followed by its colon, the recovery passing over the items
\* of that section up to its END
C31_Witness ==
    /\ Done
    /\ Truthy(rets.devicelist)
    /\ \E n \in 1..Len(recoveries) :
          /\ recoveries[n].error_type = SYNTAX_COLON
          /\ recoveries[n].stop = END
          /\ recoveries[n].landed > recoveries[n].from + 1

\* a parse in which a list keyword was wrong, the recovery passing over the
\* items of the section up to its END
C31_WrongKeyword ==
    /\ Done
    /\ \E n \in 1..Len(recoveries) :
          /\ recoveries[n].error_type = KEYWORD_ERROR
          /\ recoveries[n].stop = END
          /\ recoveries[n].landed > recoveries[n].from + 1

----------------------------------------------------------------------------
(* C32: ControlPanel.cycles_completed.  The Reset button calls the handler  *)
(* of the Run button, so a click on it begins a run as a click on Run does. *)

\* the last click so far that began a run, 0 before the first one
LastRun ==
    IF \E n \in 1..Len(sim) : sim[n].handler # "continue"
    THEN CHOOSE n \in 1..Len(sim) :
             /\ sim[n].handler # "continue"
             /\ \A m \in n + 1..Len(sim) : sim[m].handler = "continue"
    ELSE 0

\* the number of cycles that were executed successfully and recorded in the
\* clicks from click n on
RECURSIVE CompletedFrom(_)
CompletedFrom(n) ==
    IF n = 0 \/ n > Len(sim) THEN 0
    ELSE Len(LevelsOf(sim[n].calls)) + CompletedFrom(n + 1)

\* no cycle failed since the run began
NoOscillationSinceRun == \A n \in 1..Len(sim) : n >= LastRun => sim[n].ret

\* C32: after any sequence of clicks on Run, Continue and Reset, cycles_completed
\* is the number of simulation cycles completed, that is executed successfully
\* and recorded, since the last run began, also when a cycle failed with
\* oscillation
C32_CyclesCompleted == cycles_completed = CompletedFrom(LastRun)

\* C32, as far as it holds: as long as no cycle has failed since the run began,
\* cycles_completed is the number of cycles completed since then
C32_CyclesCompletedWithoutOscillation ==
    NoOscillationSinceRun => cycles_completed = CompletedFrom(LastRun)

\* a run and a continuation without a failure: cycles_completed counts the cycles
\* of both
C32_CountedOverContinue ==
    /\ Len(sim) = 2 /\ sim[1].handler = "run" /\ sim[2].handler = "continue"
    /\ NoOscillationSinceRun
    /\ sim[1].cycles = 1 /\ sim[2].cycles = 2
    /\ cycles_completed = 3 /\ Len(traces) = 3

----------------------------------------------------------------------------
(* C33: what Run and Continue do to the traces.                             *)

\* the places among the calls of a handler where the given operation is called
CallsOf(e, op) == {i \in 1..Len(e.calls) : e.calls[i].op = op}

\* sequence a is the beginning of sequence b
IsPrefix(a, b) == Len(a) <= Len(b) /\ SubSeq(b, 1, Len(a)) = a

\* C33: every Run calls reset_monitors and then cold_startup before it executes
\* any cycle, so that after a successful Run of n cycles the trace holds exactly
\* n values; Continue calls neither, so that it only appends to the trace
C33_RunClearsContinueAppends ==
    \A n \in 1..Len(sim) :
        /\ sim[n].handler # "continue" =>
               /\ Len(sim[n].calls) >= 2
               /\ sim[n].calls[1].op = "reset_monitors"
               /\ sim[n].calls[2].op = "cold_startup"
               /\ \A i \in CallsOf(sim[n], "execute_network") : i > 2
               /\ sim[n].ret => Len(sim[n].after) = sim[n].cycles
        /\ sim[n].handler = "continue" =>
               /\ CallsOf(sim[n], "reset_monitors") = {}
               /\ CallsOf(sim[n], "cold_startup") = {}
               /\ IsPrefix(sim[n].before, sim[n].after)

\* a Run of two cycles was followed by a Run of one cycle, both successful: the
\* trace holds the one value of the second Run
C33_Witness ==
    /\ Len(sim) = 2
    /\ sim[1].handler = "run" /\ sim[1].ret /\ sim[1].cycles = 2
    /\ sim[2].handler = "run" /\ sim[2].ret /\ sim[2].cycles = 1
    /\ Len(sim[2].before) = 2 /\ Len(traces) = 1

\* a Run was followed by a Continue that appended two values to its trace
C33_Appended ==
    /\ Len(sim) = 2
    /\ sim[1].handler = "run" /\ sim[2].handler = "continue"
    /\ sim[2].before # <<>> /\ Len(sim[2].after) = Len(sim[2].before) + 2

----------------------------------------------------------------------------
(* C34: when the Continue button is refused.                                *)

\* click n on Continue was refused: the status bar says so and no cycle was executed
Refused(n) ==
    /\ sim[n].status = "Error! Nothing to continue. Run first."
    /\ CallsOf(sim[n], "execute_network") = {}
    /\ sim[n].after = sim[n].before

\* a run begun before click n completed at least one cycle, and no run of zero
\* cycles came between it and click n
RunCompletedBefore(n) ==
    \E m \in 1..n - 1 :
        /\ sim[m].handler # "continue"
        /\ LevelsOf(sim[m].calls) # <<>>
        /\ \A j \in m + 1..n - 1 : sim[j].handler = "continue" \/ sim[j].cycles # 0

\* the last click before click n that began a run, 0 if there is none
LastRunBefore(n) ==
    IF \E m \in 1..n - 1 : sim[m].handler # "continue"
    THEN CHOOSE m \in 1..n - 1 :
             /\ sim[m].handler # "continue"
             /\ \A j \in m + 1..n - 1 : sim[j].handler = "continue"
    ELSE 0

\* C34: a click on Continue is refused with 'Nothing to continue. Run first.' and
\* executes no cycle unless a run completed at least one cycle since start-up or
\* since the last run of zero cycles; so it is refused after a Run whose first
\* cycle failed
C34_ContinueNeedsCompletedCycle ==
    \A n \in 1..Len(sim) :
        (sim[n].handler = "continue" /\ ~RunCompletedBefore(n)) => Refused(n)

\* C34, as far as it holds: a click on Continue is refused when no run was begun
\* before it or when the last run before it was one of zero cycles
C34_RefusedWithoutRun ==
    \A n \in 1..Len(sim) :
        (/\ sim[n].handler = "continue"
         /\ LastRunBefore(n) # 0 => sim[LastRunBefore(n)].cycles = 0)
            => Refused(n)

\* Continue was clicked after a Run of zero cycles and was refused
C34_RefusedAfterEmptyRun ==
    /\ Len(sim) = 2
    /\ sim[1].handler = "run" /\ sim[1].cycles = 0
    /\ sim[2].handler = "continue" /\ sim[2].cycles = 2 /\ Refused(2)

----------------------------------------------------------------------------
(* C35: a section whose last item is not followed by ';'.                   *)

\* two programs of the definition language without a defect
SoundFiles == {SmallFile, WiredFile}

\* the places of the ';' that END follows in a file
LastSemicolons(f) == {i \in 1..Len(f) - 1 : f[i] = tSEMI /\ f[i + 1] = tEND}

\* the files whose only defect is the missing ';' after the last item of a section
MissingSemicolonFiles ==
    UNION {{Place(Delete(f, i)) : i \in LastSemicolons(f)} : f \in SoundFiles}

\* the types of the errors recorded, in order
ErrorTypesRecorded == [n \in 1..Len(error_messages) |-> error_messages[n].error_type]

\* C35: the two programs parse without an error, and either of them with the ';'
\* after the last item of one section taken away gives exactly one error entry:
\* the recovery of the item consumes the END of the section and no END error is
\* recorded for it
C35_MissingSemicolonIsOneError ==
    Done =>
        /\ tokens \in {Place(f) : f \in SoundFiles} => error_count = 0
        /\ tokens \in MissingSemicolonFiles =>
               error_count = 1 /\ END_ERROR \notin {ErrorTypesRecorded[n] : n \in 1..error_count}

\* C35, as the code has it: either program with the ';' after the last item of
\* one section taken away gives two error entries, the SYNTAX error of the item,
\* whose recovery consumes the END of the section, and an END error after it
C35_MissingSemicolonIsTwoErrors ==
    Done =>
        /\ tokens \in {Place(f) : f \in SoundFiles} => error_count = 0
        /\ tokens \in MissingSemicolonFiles =>
               /\ ErrorTypesRecorded = <<SYNTAX, END_ERROR>>
               /\ error_count = 2
               /\ recoveries[1].stop = END
               /\ recoveries[2].from = recoveries[1].resumed

\* the parse of a file without the ';' after its last monitor point came to its end
C35_MissingSemicolonParsed ==
    /\ Done
    /\ tokens \in MissingSemicolonFiles
    /\ tokens[Len(tokens) - 1].id = END /\ tokens[Len(tokens) - 2].type # SCL

----------------------------------------------------------------------------
(* C36: a list keyword or ':' where an item or END is expected, in any of   *)
(* the three lists.                                                         *)

\* iteration k of an item loop found a list keyword or a colon
MissingEnd(k) == items[k].branch = "end_error"

\* C36: where an item or END is expected and the current symbol is a list keyword
\* or a colon, exactly one END error is recorded at that symbol, in MONITOR_LIST
\* as in the two other lists
C36_OneEndErrorPerMissingEnd ==
    \A k \in 1..Len(items) :
        MissingEnd(k) => Cardinality(EndErrorsAt(items[k].from)) = 1

\* C36, as the code has it: one END error at that symbol in DEVICE_LIST and in
\* CONNECTION_LIST, and two in MONITOR_LIST once monitorlist has returned, the
\* one of the item loop and the one of check_end
C36_TwoEndErrorsInMonitorList ==
    \A k \in 1..Len(items) :
        MissingEnd(k) =>
            /\ items[k].list # MONITOR_LIST => Cardinality(EndErrorsAt(items[k].from)) = 1
            /\ (items[k].list = MONITOR_LIST /\ Done) =>
                   /\ Cardinality(EndErrorsAt(items[k].from)) = 2
                   /\ \A r \in EndErrorsAt(items[k].from) : ~recoveries[r].advance_symbol

\* the parse of a file with a colon in the place of the END of its monitor list
\* came to its end
C36_MissingEndInMonitorList ==
    /\ Done
    /\ \E k \in 1..Len(items) :
          /\ MissingEnd(k) /\ items[k].list = MONITOR_LIST
          /\ tokens[items[k].from].type = CL
          /\ k > 1 /\ items[k - 1].list = MONITOR_LIST

----------------------------------------------------------------------------
(* C37: what is built for an item the parser records an error for.          *)

\* the calls of iteration k of an item loop that made a device, a connection or a
\* monitor point
Built(k) ==
    {i \in 1..Len(items[k].calls) :
        \/ items[k].calls[i].op = "make_device" /\ items[k].calls[i].res = devices_NO_ERROR
        \/ items[k].calls[i].op = "make_connection" /\ items[k].calls[i].res = network_NO_ERROR
        \/ items[k].calls[i].op = "make_monitor" /\ items[k].calls[i].res = monitors_NO_ERROR}

\* C37: a device, a connection or a monitor point is made only for an item that
\* is complete, with its ';': an item the parser records an error for makes none
C37_NothingBuiltForFailedItem ==
    \A k \in 1..Len(items) : items[k].errors > 0 => Built(k) = {}

\* C37, as the code has it: an item the parser records an error for has made a
\* device, a connection or a monitor point only if the error is the one for the
\* missing ';', recorded at the symbol that follows the item
C37_BuiltBeforeSemicolon ==
    \A k \in 1..Len(items) :
        (items[k].errors > 0 /\ Built(k) # {}) =>
            /\ items[k].errors = 1
            /\ Built(k) = {Len(items[k].calls)}
            /\ \E r \in 1..Len(recoveries) :
                  /\ recoveries[r].from = items[k].calls[Len(items[k].calls)].at
                  /\ recoveries[r].error_type = SYNTAX
                  /\ error_messages[r].detail = SEMI_COLON

\* a connection was made for an item that its ';' does not follow
C37_BuiltWithoutSemicolon ==
    \E k \in 1..Len(items) :
        /\ items[k].errors = 1 /\ Built(k) # {}
        /\ items[k].list = CONNECTION_LIST

----------------------------------------------------------------------------
(* C38: what the scanner discards.                                          *)

\* the k-th symbol returned is made of characters of the text, the one at i among them
Covers(k, i) ==
    /\ BeginsAt(k) # 0
    /\ BeginsAt(k) <= i
    /\ i < returned[k].after.current_position

\* every character of the text that is not white space and does not follow a '-'
\* belongs to a symbol returned
NothingDiscarded ==
    \A i \in 1..Len(defi_file) :
        (~isspace(defi_file[i]) /\ NotAfterMinus(i))
            => \E k \in 1..Len(returned) : Covers(k, i)

\* C38: the scanner discards white space and comments only.  In a text without
\* comments every character that is not white space belongs to a symbol, and a
\* '/', which '/' or '*' does not follow there, is returned as a symbol of its
\* own without a type, so that the character after it is scanned as part of
\* the next symbol
C38_OnlyBlanksAndCommentsDiscarded ==
    (ScannedToEof /\ NoComment) =>
        /\ NothingDiscarded
        /\ \A i \in 1..Len(defi_file) :
              (defi_file[i] = "/" /\ NotAfterMinus(i)) =>
                  \E k \in 1..Len(returned) :
                      /\ IsUntypedSymbol(k, i)
                      /\ returned[k].after.current_position = i + 1

\* C38, as far as it holds: in a text without a '/' every character that is not
\* white space and does not follow a '-' belongs to a symbol returned
C38_NothingDiscardedWithoutSlash ==
    (ScannedToEof /\ \A i \in 1..Len(defi_file) : defi_file[i] # "/")
        => NothingDiscarded

\* what the scanner does with a '/' that neither '/' nor '*' follows, at the
\* place where it looks for the next symbol: the '/' and the character after it
\* are read and belong to no symbol
C38_SlashAndNextCharacterDropped ==
    \A k \in 1..Len(returned) :
        LET at == returned[k].before.current_position
        IN  (/\ at \in 1..Len(defi_file) - 1
             /\ returned[k].before.current_char = "/"
             /\ defi_file[at] = "/"
             /\ defi_file[at + 1] \notin {"/", "*"})
                => BeginsAt(k) = 0 \/ BeginsAt(k) > at + 1

====
